---- MODULE Spec2Model ----
(***************************************************************************)
(* Bulk-messaging dispatch scheduler (src/app/api/disparos/route.ts).      *)
(*                                                                         *)
(* The store (tables "batches" and "messages") is the shared state; a      *)
(* request handler (POST create, POST resume) is a process whose position  *)
(* is pc[d]; it is cut at its awaits.  Timestamps are epoch milliseconds   *)
(* (the code stores them as ISO-8601 strings with millisecond precision,   *)
(* and compares them as instants).  Strings are sequences of one-character *)
(* strings.  A nullable field is a sequence of length at most one.         *)
(***************************************************************************)
EXTENDS Integers, Sequences, FiniteSets, TLC

(* ------------------------------ bounds -------------------------------- *)
\* most message rows the store holds
MaxMsgs == 2
\* Math.random() is drawn from {0/RandDenom, ..., (RandDenom-1)/RandDenom}
RandDenom == 2
\* most store updates that fail (the error is returned, and not looked at)
MaxFaults == 1
\* most transport calls a message gets when two drains run at a time
CallCap == 2
\* most contacts, and most templates, buildRows is applied to
MaxContacts == 2
MaxPool == 2

(* ------------------------- program constants -------------------------- *)
DayMs == 86400000
MinuteMs == 60000
HourMs == 60 * MinuteMs
SlackMs == 1500
MaxAttempts == 3
BackoffMs == 600
ErrMaxLen == 2000
DefaultLimit == 15
DefaultBudgetMs == 18000
WindowStartH == 8
WindowEndH == 18
DefaultDelayMsMin == 1000
DefaultDelayMsMax == 5000

(* ------------------------------ helpers ------------------------------- *)
Null == << >>
Some(x) == << x >>
IsNull(o) == o = << >>
Val(o) == o[1]

Min(a, b) == IF a <= b THEN a ELSE b
Max(a, b) == IF a >= b THEN a ELSE b

Range(s) == { s[k] : k \in 1..Len(s) }

RECURSIVE Concat(_)
Concat(ss) ==
  IF ss = << >> THEN << >> ELSE Head(ss) \o Concat(Tail(ss))

\* the orders of a query that does not sort its rows
AnyOrders(ids, key) ==
  { s \in [1..Cardinality(ids) -> ids] :
      \A a, b \in 1..Cardinality(ids) : a # b => s[a] # s[b] }

\* the orders in which a query with ORDER BY key ASC may return the rows ids
\* (rows with equal keys come in any order)
SortedOrders(ids, key) ==
  { s \in [1..Cardinality(ids) -> ids] :
      /\ \A a, b \in 1..Cardinality(ids) : a # b => s[a] # s[b]
      /\ \A a, b \in 1..Cardinality(ids) : a < b => key[s[a]] <= key[s[b]] }

(* ------------------------------ strings ------------------------------- *)
DigitChars == {"0", "1", "2", "3", "4", "5", "6", "7", "8", "9"}

digits(v) == SelectSeq(v, LAMBDA ch : ch \in DigitChars)

\* a normalisation that prefixes the country code whatever the digits are
normAlwaysPrefix(n) ==
  LET d == digits(n)
  IN  IF d = << >> THEN << >> ELSE <<"5", "5">> \o d

norm(n) ==
  LET d == digits(n)
  IN  IF d = << >> THEN << >>
      ELSE IF Len(d) >= 2 /\ d[1] = "5" /\ d[2] = "5" THEN d
      ELSE <<"5", "5">> \o d

RECURSIVE replaceAll(_, _, _)
replaceAll(s, pat, rep) ==
  IF Len(s) < Len(pat) THEN s
  ELSE IF SubSeq(s, 1, Len(pat)) = pat
       THEN rep \o replaceAll(SubSeq(s, Len(pat) + 1, Len(s)), pat, rep)
       ELSE << Head(s) >> \o replaceAll(Tail(s), pat, rep)

RECURSIVE trimStart(_)
trimStart(s) ==
  IF s # << >> /\ Head(s) = " " THEN trimStart(Tail(s)) ELSE s

RECURSIVE trimEnd(_)
trimEnd(s) ==
  IF s # << >> /\ s[Len(s)] = " " THEN trimEnd(SubSeq(s, 1, Len(s) - 1)) ELSE s

trim(s) == trimEnd(trimStart(s))

TokNome == <<"{", "{", "n", "o", "m", "e", "}", "}">>
TokNumero == <<"{", "{", "n", "u", "m", "e", "r", "o", "}", "}">>

\* slice that cuts nothing
sliceWhole(e, n) == e

\* an error text: the first len characters of the message named tag
slice(e, n) == [e EXCEPT !.len = Min(@, n)]

(* ------------------------------- rand --------------------------------- *)
\* rand(a, b) with Math.random() = k / RandDenom
rand(a, b, k) ==
  LET min0 == Min(a, b)
      max == Max(a, b)
      min == IF min0 < 0 THEN 0 ELSE min0
  IN  min + ((k * (max - min + 1)) \div RandDenom)

(* ------------------------- window (08-18) ----------------------------- *)
\* A timezone is a fixed offset from UTC, in minutes.
getLocalHour(t, tz) == ((t + tz * MinuteMs) \div HourMs) % 24

inWindow(t, tz) ==
  LET h == getLocalHour(t, tz)
  IN  h >= WindowStartH /\ h < WindowEndH

\* eightLocal is 08:00 UTC of the local calendar day of t in tz; the offset
\* subtracted from it is the one the host's own timezone reports.
next0800(t, tz, hostOffsetMin) ==
  LET day == (t + tz * MinuteMs) \div DayMs
      eightLocal == day * DayMs + 8 * HourMs
      offsetMin == hostOffsetMin
      eightEpoch == eightLocal - offsetMin * MinuteMs
  IN  IF t <= eightEpoch THEN eightEpoch ELSE eightEpoch + DayMs

(* ----------------------------- buildRows ------------------------------ *)
renderText(t, c) ==
  replaceAll(replaceAll(t, TokNome, c.nome), TokNumero, c.numero)

\* the follow-ups alone, without the anchor
momentsOffsetsOnly(startAtMs, cadenceDays) ==
  [ j \in 1..Len(cadenceDays) |-> startAtMs + cadenceDays[j] * DayMs ]

moments(startAtMs, cadenceDays) ==
  << startAtMs >> \o [ j \in 1..Len(cadenceDays) |-> startAtMs + cadenceDays[j] * DayMs ]

\* rows for a contact whatever its address normalises to
rowsOfContactUnfiltered(batchId, c, textPool, startAtMs, cadenceDays, createdAt) ==
  LET ms == moments(startAtMs, cadenceDays)
      T == Len(textPool)
  IN  [ k \in 1..(Len(ms) * T) |->
          [ batch_id |-> batchId,
            numero |-> norm(c.numero),
            status |-> "queued",
            error |-> Null,
            payload |-> renderText(textPool[((k - 1) % T) + 1], c),
            created_at |-> createdAt,
            scheduled_at |-> ms[((k - 1) \div T) + 1],
            sent_at |-> Null ] ]

rowsOfContact(batchId, c, textPool, startAtMs, cadenceDays, createdAt) ==
  LET ms == moments(startAtMs, cadenceDays)
      T == Len(textPool)
  IN  IF norm(c.numero) = << >> THEN << >>
      ELSE [ k \in 1..(Len(ms) * T) |->
               [ batch_id |-> batchId,
                 numero |-> norm(c.numero),
                 status |-> "queued",
                 error |-> Null,
                 payload |-> renderText(textPool[((k - 1) % T) + 1], c),
                 created_at |-> createdAt,
                 scheduled_at |-> ms[((k - 1) \div T) + 1],
                 sent_at |-> Null ] ]

buildRows(batchId, contacts, textPool, startAtMs, cadenceDays, createdAt) ==
  Concat([ k \in 1..Len(contacts) |->
             rowsOfContact(batchId, contacts[k], textPool, startAtMs, cadenceDays, createdAt) ])

(* ------------------------------- state -------------------------------- *)
VARIABLES
  clock,     \* Date.now()
  env,       \* process environment: transport configuration, host timezone
  batches,   \* table "batches": the row with id k is batches[k]
  messages,  \* table "messages": the row with id k is messages[k]
  proc,      \* request handlers: position and locals of each
  hist,      \* per message: transport calls made, successes, pre-jitter time,
             \* and the window flag and timezone of the request that created it
  faults,    \* store updates that failed so far
  eval       \* a function of the module under evaluation: name, arguments, result

vars == << clock, env, batches, messages, proc, hist, faults, eval >>

Procs == {1, 2}

\* no function is under evaluation
NoEval == [ fn |-> "", arg |-> << >>, out |-> << >> ]

\* the ids the store assigns to batch headers
BatchIds == {1, 2}

MsgIds == 1..Len(messages)

NoResponse ==
  [ status |-> 0, ok |-> FALSE, error |-> "", resume |-> FALSE, batchId |-> 0,
    queued |-> 0, processed |-> 0, reason |-> "" ]

IdleProc ==
  [ pc |-> "idle", resume |-> FALSE, batchId |-> 0, queued |-> 0,
    limit |-> 0, timeBudgetMs |-> 0, startClock |-> 0, nowIso |-> 0,
    jobs |-> << >>, j |-> 0, attempt |-> 0, ok |-> FALSE, last |-> Null, wake |-> 0,
    rows |-> << >>, cursor |-> 0, count |-> 0,
    minGapMs |-> 0, maxGapMs |-> 0, pauseEvery |-> 0, pauseDurationMs |-> 0,
    response |-> NoResponse,
    tries |-> 0, brought |-> 0, failedAt |-> 0, thrown |-> Null ]

(* ------------------------- inputs of the model ------------------------ *)
cAna == [ nome |-> <<"A">>, numero |-> <<"1", "-", "9">> ]
cBad == [ nome |-> << >>, numero |-> <<"x">> ]

tplHi == <<"H", " "  >> \o TokNome
tplNum == TokNumero \o <<"!">>

\* 07:59:57 UTC of day 1: three seconds before the window opens
Clock0 == DayMs + 8 * HourMs - 3000

\* the defaults of POST's destructuring; one contact, one template, sent now
Body0 ==
  [ textPool |-> << tplHi >>, contacts |-> << cBad, cAna >>, cadenceDays |-> << >>,
    delayMsMin |-> DefaultDelayMsMin, delayMsMax |-> DefaultDelayMsMax,
    pauseEvery |-> 0, pauseDurationMs |-> 0, instanceName |-> Null,
    startAtMs |-> Null, ignoreWindow |-> TRUE, tz |-> Some(0) ]

Bodies ==
  { Body0,
    [ Body0 EXCEPT !.ignoreWindow = FALSE ],
    [ Body0 EXCEPT !.textPool = << tplHi, tplNum >>, !.ignoreWindow = FALSE ],
    [ Body0 EXCEPT !.cadenceDays = << 1 >> ],
    [ Body0 EXCEPT !.contacts = << cBad >> ],
    [ Body0 EXCEPT !.textPool = << <<" ">> >> ] }

\* processChunk's (limit, timeBudgetMs): POST passes (15, 18000)
ChunkArgs == { << DefaultLimit, DefaultBudgetMs >>, << 1, DefaultBudgetMs >>,
               << DefaultLimit, 0 >> }
\* how long a transport call takes
Latencies == { 0, DefaultBudgetMs }
ErrMsgs == { [ tag |-> "e404", len |-> 90 ], [ tag |-> "e500", len |-> 2300 ] }

Init ==
  /\ clock = Clock0
  /\ env = [ configOk |-> TRUE, hostOffsetMin |-> 0, instanceName |-> <<"m">> ]
  /\ batches = << >>
  /\ messages = << >>
  /\ proc = [ d \in Procs |-> IdleProc ]
  /\ hist = << >>
  /\ faults = 0
  /\ eval = NoEval

(* ------------------------ responses of POST --------------------------- *)
\* a rejection that carries the status alone
RejectWithoutReason(code, err) ==
  [ IdleProc EXCEPT !.pc = "done", !.response =
      [ NoResponse EXCEPT !.status = code ] ]

Reject(code, err) ==
  [ IdleProc EXCEPT !.pc = "done", !.response =
      [ NoResponse EXCEPT !.status = code, !.error = err ] ]

\* processChunk returned {processed, reason}; the handler answers 200
Return(p, processed, reason) ==
  [ IdleProc EXCEPT
      !.pc = "done",
      !.brought = p.brought,
      !.response = [ status |-> 200, ok |-> TRUE, error |-> "", resume |-> p.resume,
                     batchId |-> p.batchId, queued |-> p.queued,
                     processed |-> processed, reason |-> reason ] ]

(* ---------------------------- processChunk ---------------------------- *)
\* a loop head that still enters with the budget used up
ChunkHeadInclusive(p, t) ==
  IF t - p.startClock <= p.timeBudgetMs
    THEN [ p EXCEPT !.pc = "select", !.nowIso = t + SlackMs ]
    ELSE Return(p, 0, "time-budget")

\* the head of the while loop, run without suspension after the await before it
ChunkHead(p, t) ==
  IF t - p.startClock < p.timeBudgetMs
    THEN [ p EXCEPT !.pc = "select", !.nowIso = t + SlackMs ]
    ELSE Return(p, 0, "time-budget")

\* entry of processChunk(batchId, limit, timeBudgetMs) at time t
EnterChunk(p, bid, lim, budget, t) ==
  ChunkHead([ p EXCEPT !.batchId = bid, !.limit = lim, !.timeBudgetMs = budget,
                       !.startClock = t, !.brought = 0, !.tries = 0,
                       !.jobs = << >>, !.j = 0 ], t)

(* --------------------------- store updates --------------------------- *)
\* a filter without the status condition
selectableAnyStatus(m, bid, nowIso) ==
  /\ m.batch_id = bid
  /\ m.scheduled_at <= nowIso

\* a filter without the scheduled-time condition
selectableAnyTime(m, bid, nowIso) ==
  /\ m.batch_id = bid
  /\ m.status \in {"queued", "sending"}

\* a filter that takes failed messages again
selectableWithErrors(m, bid, nowIso) ==
  /\ m.batch_id = bid
  /\ m.status \in {"queued", "sending", "error"}
  /\ m.scheduled_at <= nowIso

\* a filter that leaves out the messages already marked sending
selectableQueuedOnly(m, bid, nowIso) ==
  /\ m.batch_id = bid
  /\ m.status = "queued"
  /\ m.scheduled_at <= nowIso

\* the filter of the drain's query (eq batch_id, in status, lte scheduled_at)
selectable(m, bid, nowIso) ==
  /\ m.batch_id = bid
  /\ m.status \in {"queued", "sending"}
  /\ m.scheduled_at <= nowIso

\* a conditional claim: only a queued row is marked
markSendingIfQueued(m) ==
  IF m.status = "queued" THEN [ m EXCEPT !.status = "sending", !.error = Null ] ELSE m

\* update({status: "sending", error: null}).eq("id", j.id)
markSending(m) == [ m EXCEPT !.status = "sending", !.error = Null ]

\* an update that writes sent whatever the attempts gave
recordOutcomeSentOnly(m, ok, last, t) ==
  [ m EXCEPT !.status = "sent", !.error = Null, !.sent_at = Some(t) ]

\* an update that also moves the scheduled time to the time of the outcome
recordOutcomeStamped(m, ok, last, t) ==
  IF ok
    THEN [ m EXCEPT !.status = "sent", !.error = Null, !.sent_at = Some(t),
                    !.scheduled_at = t + 1 ]
    ELSE [ m EXCEPT !.status = "error", !.error = Some(slice(Val(last), ErrMaxLen)),
                    !.scheduled_at = t + 1 ]

\* update(ok ? {sent, null, sent_at} : {error, String(last).slice(0, 2000)})
recordOutcome(m, ok, last, t) ==
  IF ok
    THEN [ m EXCEPT !.status = "sent", !.error = Null, !.sent_at = Some(t) ]
    ELSE [ m EXCEPT !.status = "error", !.error = Some(slice(Val(last), ErrMaxLen)) ]

\* an attempt loop that goes on after a success
retryUntilMax(attempt, ok) == attempt <= MaxAttempts

\* the condition of the attempt loop
retry(attempt, ok) == attempt <= MaxAttempts /\ ~ok

\* a constant backoff
backoffFixed(attempt) == BackoffMs

\* sleep(600 * attempt)
backoff(attempt) == BackoffMs * attempt

\* the count returned when the deadline has passed after a message
processedOnBudget(jobs, brought) == Len(jobs)

\* the count returned when a selection is empty
processedOnNoJobs(brought) == 0

(* ------------------------------ jitter -------------------------------- *)
\* a gap drawn from 0 up to maxGapMs, whatever minGapMs
jitterGapFromZero(count, minGapMs, maxGapMs, k) ==
  IF count > 0 THEN Max(0, rand(0, maxGapMs, k)) ELSE 0

jitterGap(count, minGapMs, maxGapMs, k) ==
  IF count > 0
    THEN IF minGapMs >= maxGapMs
           THEN Max(0, minGapMs)
           ELSE Max(0, rand(minGapMs, maxGapMs, k))
    ELSE 0

\* a pause counted from the first message: after every pauseEvery-th gap
jitterPauseOneBased(count, pauseEvery, pauseDurationMs) ==
  IF count > 0 /\ pauseEvery > 0 /\ (count + 1) % pauseEvery = 0
    THEN Max(0, pauseDurationMs)
    ELSE 0

jitterPause(count, pauseEvery, pauseDurationMs) ==
  IF count > 0 /\ pauseEvery > 0 /\ count % pauseEvery = 0
    THEN Max(0, pauseDurationMs)
    ELSE 0

\* a cursor that starts at the first row's time, whatever the clock says
jitterStartAtFirst(t, firstScheduled) == firstScheduled

\* cursor = Math.max(now(), first row's scheduled_at)
jitterStart(t, firstScheduled) == Max(t, firstScheduled)

insertBatchRow(instanceName, source) ==
  [ instance_name |-> instanceName, source |-> source, status |-> "queued" ]

(* ------------------------------ actions ------------------------------- *)
SetProc(d, p) == proc' = [ proc EXCEPT ![d] = p ]

\* POST with a create body: validation, batch header, message rows, and the
\* ordered select that opens applyJitterAndPause
PostCreate(d, body) ==
  LET p == proc[d]
      templates == SelectSeq([ k \in 1..Len(body.textPool) |-> trim(body.textPool[k]) ],
                             LAMBDA s : s # << >>)
      name == trim(IF IsNull(body.instanceName) THEN env.instanceName
                   ELSE Val(body.instanceName))
      zone == IF IsNull(body.tz) THEN env.hostOffsetMin ELSE Val(body.tz)
      start0 == IF ~IsNull(body.startAtMs) /\ Val(body.startAtMs) > 0
                  THEN Val(body.startAtMs) ELSE clock
      startAt == IF ~body.ignoreWindow /\ ~inWindow(start0, zone)
                   THEN next0800(start0, zone, env.hostOffsetMin) ELSE start0
      batchId == Len(batches) + 1
      rows == buildRows(batchId, body.contacts, templates, startAt,
                        body.cadenceDays, clock)
      ids == (Len(messages) + 1)..(Len(messages) + Len(rows))
      minGap == Max(0, Min(body.delayMsMin, body.delayMsMax))
      maxGap == Max(body.delayMsMin, body.delayMsMax)
  IN  /\ p.pc = "idle"
      /\ UNCHANGED << clock, env, eval, faults >>
      /\ IF ~env.configOk
           THEN SetProc(d, Reject(500, "config_missing"))
                /\ UNCHANGED << batches, messages, hist >>
         ELSE IF templates = << >>
           THEN SetProc(d, Reject(400, "empty_templates"))
                /\ UNCHANGED << batches, messages, hist >>
         ELSE IF body.contacts = << >>
           THEN SetProc(d, Reject(400, "empty_contacts"))
                /\ UNCHANGED << batches, messages, hist >>
         ELSE IF name = << >>
           THEN SetProc(d, Reject(500, "config_missing_instance_name"))
                /\ UNCHANGED << batches, messages, hist >>
         ELSE /\ batchId \in BatchIds
              /\ Len(messages) + Len(rows) <= MaxMsgs
              /\ batches' = Append(batches, insertBatchRow(name, "csv"))
              /\ messages' = messages \o rows
              /\ hist' = hist \o [ k \in 1..Len(rows) |->
                                     [ calls |-> 0, okCalls |-> 0,
                                       pre |-> rows[k].scheduled_at,
                                       jittered |-> FALSE,
                                       windowed |-> ~body.ignoreWindow,
                                       zone |-> zone ] ]
              /\ IF rows = << >>
                   THEN SetProc(d, Reject(400, "no_valid_numbers"))
                   ELSE \E order \in SortedOrders(ids, [ m \in ids |-> messages'[m].scheduled_at ]) :
                          SetProc(d, [ IdleProc EXCEPT
                            !.pc = "jitter",
                            !.batchId = batchId,
                            !.queued = Len(rows),
                            !.rows = order,
                            !.cursor = jitterStart(clock, messages'[order[1]].scheduled_at),
                            !.count = 0,
                            !.minGapMs = minGap,
                            !.maxGapMs = maxGap,
                            !.pauseEvery = Max(0, body.pauseEvery),
                            !.pauseDurationMs = Max(0, body.pauseDurationMs) ])

\* one iteration of applyJitterAndPause's loop (one update of scheduled_at);
\* after the last one POST goes on to processChunk(batchId, 15, 18000)
JitterStep(d, k) ==
  LET p == proc[d]
      r == p.rows[p.count + 1]
      cursor == p.cursor + jitterGap(p.count, p.minGapMs, p.maxGapMs, k)
                         + jitterPause(p.count, p.pauseEvery, p.pauseDurationMs)
      q == [ p EXCEPT !.cursor = cursor, !.count = p.count + 1 ]
  IN  /\ p.pc = "jitter"
      /\ messages' = [ messages EXCEPT ![r].scheduled_at = cursor ]
      /\ hist' = [ hist EXCEPT ![r].jittered = TRUE ]
      /\ SetProc(d, IF q.count = Len(q.rows)
                      THEN EnterChunk([ q EXCEPT !.rows = << >>, !.cursor = 0, !.count = 0,
                                                 !.minGapMs = 0, !.maxGapMs = 0,
                                                 !.pauseEvery = 0, !.pauseDurationMs = 0 ],
                                      q.batchId, DefaultLimit, DefaultBudgetMs, clock)
                      ELSE q)
      /\ UNCHANGED << clock, env, eval, batches, faults >>

\* POST with { batchId }: processChunk on an existing batch
PostResume(d, bid, lim, budget) ==
  /\ proc[d].pc = "idle"
  /\ SetProc(d, IF ~env.configOk
                  THEN Reject(500, "config_missing")
                  ELSE EnterChunk([ IdleProc EXCEPT !.resume = TRUE ], bid, lim, budget, clock))
  /\ UNCHANGED << clock, env, eval, batches, messages, hist, faults >>

\* the drain's query returns
Select(d) ==
  LET p == proc[d]
      eligible == { m \in MsgIds : selectable(messages[m], p.batchId, p.nowIso) }
  IN  /\ p.pc = "select"
      /\ \E order \in SortedOrders(eligible, [ m \in eligible |-> messages[m].scheduled_at ]) :
           LET n == Min(p.limit, Len(order))
               jobs == [ k \in 1..n |->
                           [ id |-> order[k], numero |-> messages[order[k]].numero,
                             text |-> messages[order[k]].payload,
                             scheduled_at |-> messages[order[k]].scheduled_at,
                             status |-> messages[order[k]].status ] ]
           IN  SetProc(d, IF n = 0
                            THEN Return(p, processedOnNoJobs(p.brought), "no-jobs")
                            ELSE [ p EXCEPT !.jobs = jobs, !.j = 1, !.pc = "mark" ])
      /\ UNCHANGED << clock, env, eval, batches, messages, hist, faults >>

\* the job is marked sending
Mark(d) ==
  LET p == proc[d]
      id == p.jobs[p.j].id
  IN  /\ p.pc = "mark"
      /\ messages' = [ messages EXCEPT ![id] = markSending(@) ]
      /\ SetProc(d, [ p EXCEPT !.pc = "send", !.attempt = 1, !.ok = FALSE,
                               !.last = Null, !.tries = 0 ])
      /\ UNCHANGED << clock, env, eval, batches, hist, faults >>

\* sendViaUazapi returns after lat ms
SendOk(d, lat) ==
  LET p == proc[d]
      id == p.jobs[p.j].id
  IN  /\ p.pc = "send"
      /\ clock' = clock + lat
      /\ hist' = [ hist EXCEPT ![id].calls = @ + 1, ![id].okCalls = @ + 1 ]
      /\ SetProc(d, [ p EXCEPT !.ok = TRUE, !.tries = @ + 1,
                               !.attempt = p.attempt + 1,
                               !.pc = IF retry(p.attempt + 1, TRUE) THEN "send" ELSE "record" ])
      /\ UNCHANGED << env, eval, batches, messages, faults >>

\* sendViaUazapi throws e; the handler starts sleep(600 * attempt)
SendFail(d, e) ==
  LET p == proc[d]
      id == p.jobs[p.j].id
  IN  /\ p.pc = "send"
      /\ UNCHANGED clock
      /\ hist' = [ hist EXCEPT ![id].calls = @ + 1 ]
      /\ SetProc(d, [ p EXCEPT !.pc = "sleep", !.last = Some(e), !.tries = @ + 1,
                               !.wake = clock + backoff(p.attempt),
                               !.failedAt = clock, !.thrown = Some(e) ])
      /\ UNCHANGED << env, eval, batches, messages, faults >>

\* the sleep ends; attempt++ and the loop condition
SleepDone(d) ==
  LET p == proc[d]
  IN  /\ p.pc = "sleep"
      /\ clock' = Max(clock, p.wake)
      /\ SetProc(d, [ p EXCEPT !.attempt = p.attempt + 1, !.wake = 0,
                               !.pc = IF retry(p.attempt + 1, p.ok) THEN "send" ELSE "record" ])
      /\ UNCHANGED << env, eval, batches, messages, hist, faults >>

\* the update that records the outcome returns (applied, or failed with an
\* error the code does not read), then the deadline check, the next job or
\* the head of the while loop
RecordStep(d, applied) ==
  LET p == proc[d]
      id == p.jobs[p.j].id
      q == [ p EXCEPT !.brought = IF applied THEN @ + 1 ELSE @,
                      !.attempt = 0, !.ok = FALSE, !.last = Null,
                      !.tries = 0, !.failedAt = 0, !.thrown = Null ]
  IN  /\ p.pc = "record"
      /\ messages' = IF applied
                       THEN [ messages EXCEPT ![id] = recordOutcome(@, p.ok, p.last, clock) ]
                       ELSE messages
      /\ SetProc(d, IF clock - p.startClock >= p.timeBudgetMs
                      THEN Return(q, processedOnBudget(p.jobs, q.brought), "time-budget")
                    ELSE IF p.j < Len(p.jobs)
                      THEN [ q EXCEPT !.j = p.j + 1, !.pc = "mark" ]
                    ELSE ChunkHead([ q EXCEPT !.jobs = << >>, !.j = 0 ], clock))
      /\ UNCHANGED << clock, env, eval, batches, hist >>

Record(d) == RecordStep(d, TRUE) /\ UNCHANGED faults

RecordLost(d) ==
  /\ faults < MaxFaults
  /\ faults' = faults + 1
  /\ RecordStep(d, FALSE)

\* the response leaves the handler
Respond(d) ==
  /\ proc[d].pc = "done"
  /\ SetProc(d, IdleProc)
  /\ UNCHANGED << clock, env, eval, batches, messages, hist, faults >>

\* time passes while no handler runs and some message is not yet eligible
Tick ==
  /\ \A d \in Procs : proc[d].pc = "idle"
  /\ \E m \in MsgIds : /\ messages[m].status \in {"queued", "sending"}
                       /\ messages[m].scheduled_at > clock + SlackMs
  /\ clock' = clock + SlackMs
  /\ UNCHANGED << env, eval, batches, messages, proc, hist, faults >>

(* ------------------------------- GET ---------------------------------- *)
\* a report that counts the messages in error among the sent ones
GETErrorAsSent(bid) ==
  LET data == { m \in MsgIds : messages[m].batch_id = bid }
      sent == Cardinality({ m \in data : messages[m].status \in {"sent", "error"} })
      queued == Cardinality({ m \in data : messages[m].status \in {"queued", "sending"} })
  IN  [ sent |-> sent, failed |-> 0, queued |-> queued, inProgress |-> queued > 0 ]

\* the status report of a batch
GET(bid) ==
  LET data == { m \in MsgIds : messages[m].batch_id = bid }
      sent == Cardinality({ m \in data : messages[m].status = "sent" })
      failed == Cardinality({ m \in data : messages[m].status = "error" })
      queued == Cardinality({ m \in data : messages[m].status \in {"queued", "sending"} })
  IN  [ sent |-> sent, failed |-> failed, queued |-> queued, inProgress |-> queued > 0 ]

(* --------------------------- specifications --------------------------- *)
\* one handler at a time
Next ==
  \/ \E body \in Bodies : PostCreate(1, body)
  \/ \E k \in 0..(RandDenom - 1) : JitterStep(1, k)
  \/ \E bid \in BatchIds, a \in ChunkArgs : PostResume(1, bid, a[1], a[2])
  \/ Select(1)
  \/ Mark(1)
  \/ \E lat \in Latencies : SendOk(1, lat)
  \/ \E e \in ErrMsgs : SendFail(1, e)
  \/ SleepDone(1)
  \/ Record(1)
  \/ Respond(1)
  \/ Tick

Spec == Init /\ [][Next]_vars

\* two handlers at a time: handler 1 creates and both resume; a message
\* gets at most CallCap transport calls (two drains can hand a message to
\* each other without end)
ConcBodies == { Body0 }

ConcSendOk(d) ==
  /\ proc[d].pc = "send"
  /\ hist[proc[d].jobs[proc[d].j].id].calls < CallCap
  /\ SendOk(d, 0)

ConcSendFail(d, e) ==
  /\ proc[d].pc = "send"
  /\ hist[proc[d].jobs[proc[d].j].id].calls < CallCap
  /\ SendFail(d, e)

NextConc ==
  \/ \E body \in ConcBodies : PostCreate(1, body)
  \/ \E d \in Procs, k \in 0..(RandDenom - 1) : JitterStep(d, k)
  \/ \E d \in Procs, bid \in BatchIds : PostResume(d, bid, DefaultLimit, DefaultBudgetMs)
  \/ \E d \in Procs : Select(d)
  \/ \E d \in Procs : Mark(d)
  \/ \E d \in Procs : ConcSendOk(d)
  \/ \E d \in Procs, e \in ErrMsgs : ConcSendFail(d, e)
  \/ \E d \in Procs : SleepDone(d)
  \/ \E d \in Procs : Record(d)
  \/ \E d \in Procs : Respond(d)

SpecConc == Init /\ [][NextConc]_vars

\* one handler at a time, resumed again and again with a positive budget; an
\* update that records an outcome may fail, at most MaxFaults times.  Every
\* await returns (the store, the transport, the timer), the clock advances,
\* and the client keeps polling each batch.  One batch is created.
LiveBodies ==
  { [ Body0 EXCEPT !.textPool = << tplHi, tplNum >>, !.ignoreWindow = FALSE ] }

LiveArgs == { << DefaultLimit, DefaultBudgetMs >> }

LiveBatchIds == { 1 }

LiveErrMsgs == { [ tag |-> "e404", len |-> 90 ] }

LiveCreate(body) == batches = << >> /\ PostCreate(1, body)

Resume(bid) == \E a \in LiveArgs : PostResume(1, bid, a[1], a[2])

TransportReturns ==
  \/ \E lat \in Latencies : SendOk(1, lat)
  \/ \E e \in LiveErrMsgs : SendFail(1, e)

UpdateReturns == Record(1) \/ RecordLost(1)

NextLive ==
  \/ \E body \in LiveBodies : LiveCreate(body)
  \/ \E k \in 0..(RandDenom - 1) : JitterStep(1, k)
  \/ \E bid \in LiveBatchIds : Resume(bid)
  \/ Select(1)
  \/ Mark(1)
  \/ TransportReturns
  \/ SleepDone(1)
  \/ UpdateReturns
  \/ Respond(1)
  \/ Tick

Fairness ==
  /\ WF_vars(\E k \in 0..(RandDenom - 1) : JitterStep(1, k))
  /\ WF_vars(Select(1))
  /\ WF_vars(Mark(1))
  /\ WF_vars(TransportReturns)
  /\ WF_vars(SleepDone(1))
  /\ WF_vars(UpdateReturns)
  /\ WF_vars(Respond(1))
  /\ SF_vars(Tick)
  /\ \A bid \in LiveBatchIds : SF_vars(Resume(bid))

LiveSpec == Init /\ [][NextLive]_vars /\ Fairness

\* one create request and the drains that follow it, with a transport that
\* always answers 2xx; the requests differ in anchor, window flag,
\* timezone, gaps, pause and the shape of the batch
T1000Yesterday == 10 * HourMs
T1759Today == DayMs + 18 * HourMs - 1000
T2000Today == DayMs + 20 * HourMs

cAnaFull ==
  [ nome |-> <<"A", "n", "a">>,
    numero |-> <<"1", "1", "9", "9", "9", "9", "9", "8", "8", "8", "8">> ]

tplHiNome == <<"H", "i", " ">> \o TokNome

\* the request of the end-to-end scenario
BodyAna ==
  [ Body0 EXCEPT !.contacts = << cAnaFull >>, !.textPool = << tplHiNome >>,
                 !.ignoreWindow = TRUE, !.startAtMs = Null ]

SchedShapes ==
  { [ textPool |-> << tplHi, tplNum >>, cadenceDays |-> << >> ],
    [ textPool |-> << tplHi >>, cadenceDays |-> << 1 >> ],
    [ textPool |-> << tplHi, tplNum, tplHi >>, cadenceDays |-> << >> ] }

SchedGaps ==
  { [ delayMsMin |-> DefaultDelayMsMin, delayMsMax |-> DefaultDelayMsMax,
      pauseEvery |-> 0, pauseDurationMs |-> 0 ],
    [ delayMsMin |-> 2000, delayMsMax |-> 2000,
      pauseEvery |-> 1, pauseDurationMs |-> MinuteMs ] }

SchedBodies ==
  { BodyAna } \cup
  { [ Body0 EXCEPT !.textPool = sh.textPool, !.cadenceDays = sh.cadenceDays,
                   !.delayMsMin = g.delayMsMin, !.delayMsMax = g.delayMsMax,
                   !.pauseEvery = g.pauseEvery, !.pauseDurationMs = g.pauseDurationMs,
                   !.startAtMs = st, !.ignoreWindow = iw, !.tz = Some(z) ] :
      sh \in SchedShapes, g \in SchedGaps,
      st \in { Null, Some(T1000Yesterday), Some(T1759Today), Some(T2000Today) },
      iw \in BOOLEAN, z \in { 0, -180 } }

SchedCreate(body) == batches = << >> /\ PostCreate(1, body)

NextSched ==
  \/ \E body \in SchedBodies : SchedCreate(body)
  \/ \E k \in 0..(RandDenom - 1) : JitterStep(1, k)
  \/ \E bid \in LiveBatchIds : PostResume(1, bid, DefaultLimit, DefaultBudgetMs)
  \/ Select(1)
  \/ Mark(1)
  \/ \E lat \in Latencies : SendOk(1, lat)
  \/ Record(1)
  \/ Respond(1)

SchedSpec == Init /\ [][NextSched]_vars

\* the window helpers applied to an instant, in a timezone, on a host:
\* next0800(t, tz), then inWindow of its result
WinInstants ==
  { DayMs + h * HourMs + e : h \in {0, 4, 7, 8, 9, 17, 18, 23}, e \in {-1, 0, 1} }

\* UTC-3 (America/Sao_Paulo), UTC, UTC+9
WinZones == { -180, 0, 540 }

WinHosts == { -180, 0, 540 }

InitWindow ==
  /\ clock = Clock0
  /\ \E host \in WinHosts :
       env = [ configOk |-> TRUE, hostOffsetMin |-> host, instanceName |-> <<"m">> ]
  /\ batches = << >>
  /\ messages = << >>
  /\ proc = [ d \in Procs |-> IdleProc ]
  /\ hist = << >>
  /\ faults = 0
  /\ \E t \in WinInstants, tz \in WinZones :
       eval = [ fn |-> "next0800", arg |-> << t, tz >>, out |-> Null ]

ApplyNext0800 ==
  /\ eval.fn = "next0800"
  /\ IsNull(eval.out)
  /\ eval' = [ eval EXCEPT !.out = Some(next0800(eval.arg[1], eval.arg[2], env.hostOffsetMin)) ]
  /\ UNCHANGED << clock, env, batches, messages, proc, hist, faults >>

ApplyInWindow ==
  /\ eval.fn = "next0800"
  /\ ~IsNull(eval.out)
  /\ eval' = [ fn |-> "inWindow", arg |-> << Val(eval.out), eval.arg[2], eval.arg[1] >>,
               out |-> Some(inWindow(Val(eval.out), eval.arg[2])) ]
  /\ UNCHANGED << clock, env, batches, messages, proc, hist, faults >>

NextWindow == ApplyNext0800 \/ ApplyInWindow

WindowSpec == InitWindow /\ [][NextWindow]_vars

\* norm and buildRows applied to addresses, contacts, templates and cadences
SeqsUpTo(S, lo, hi) == UNION { [1..n -> S] : n \in lo..hi }

\* national numbers (area code and local digits): area 11, and area 55
\* written with punctuation
NationalNumbers ==
  { cAnaFull.numero,
    <<"(", "5", "5", ")", " ", "9", "9", "9", "9", "9", "-", "8", "8", "8", "8">> }

NormInputs ==
  NationalNumbers \cup
  { << >>, <<"x">>, <<"-", " ">>, <<"1", "-", "9">>, <<"5">>, <<"5", "5">>,
    <<"+", "5", "5", " ", "1", "1", "9">>, <<"5", "x", "5", "1">> }

c55 == [ nome |-> <<"B">>, numero |-> <<"5", "5", "7">> ]
cNoNome == [ nome |-> << >>, numero |-> <<"(", "2", ")">> ]
tplOther == <<"{", "{", "x", "}", "}", "?">>

RowContacts == { cAna, cBad, c55, cNoNome }
RowTemplates == { tplHi, tplNum, tplOther, << >> }
RowCadences == { << >>, << 1 >>, << 7, 1 >> }

InitRows ==
  /\ clock = Clock0
  /\ env = [ configOk |-> TRUE, hostOffsetMin |-> 0, instanceName |-> <<"m">> ]
  /\ batches = << >>
  /\ messages = << >>
  /\ proc = [ d \in Procs |-> IdleProc ]
  /\ hist = << >>
  /\ faults = 0
  /\ \/ \E x \in NormInputs : eval = [ fn |-> "norm", arg |-> << x >>, out |-> << >> ]
     \/ \E cs \in SeqsUpTo(RowContacts, 0, MaxContacts),
           pool \in SeqsUpTo(RowTemplates, 1, MaxPool),
           cad \in RowCadences :
          eval = [ fn |-> "buildRows",
                   arg |-> [ batchId |-> 7, contacts |-> cs, textPool |-> pool,
                             startAtMs |-> Clock0, cadenceDays |-> cad ],
                   out |-> Null ]

\* norm applied to x, then to its own result
ApplyNorm ==
  /\ eval.fn = "norm"
  /\ Len(eval.out) < 2
  /\ eval' = [ eval EXCEPT !.out =
                 Append(@, norm(IF @ = << >> THEN eval.arg[1] ELSE @[Len(@)])) ]
  /\ UNCHANGED << clock, env, batches, messages, proc, hist, faults >>

ApplyBuildRows ==
  /\ eval.fn = "buildRows"
  /\ IsNull(eval.out)
  /\ eval' = [ eval EXCEPT !.out =
                 Some(buildRows(eval.arg.batchId, eval.arg.contacts, eval.arg.textPool,
                                eval.arg.startAtMs, eval.arg.cadenceDays, clock)) ]
  /\ UNCHANGED << clock, env, batches, messages, proc, hist, faults >>

NextRows == ApplyNorm \/ ApplyBuildRows

RowsSpec == InitRows /\ [][NextRows]_vars

(* --------------------------- sendViaUazapi ---------------------------- *)
\* A URL is the sequence of its path segments after the origin; a trailing
\* slash is a trailing empty segment.  The endpoint test ignores case.
RECURSIVE stripSlashes(_)
stripSlashes(u) ==
  IF u # << >> /\ u[Len(u)] = "" THEN stripSlashes(SubSeq(u, 1, Len(u) - 1)) ELSE u

EndsWith(u, e) == Len(u) >= Len(e) /\ SubSeq(u, Len(u) - Len(e) + 1, Len(u)) = e

\* a path segment in lower case (the segments that occur)
lowerSeg(g) ==
  CASE g = "SEND" -> "send"
    [] g = "TEXT" -> "text"
    [] g = "sendText" -> "sendtext"
    [] g = "API" -> "api"
    [] OTHER -> g

lower(u) == [ n \in 1..Len(u) |-> lowerSeg(u[n]) ]

Endpoints == << <<"send", "text">>, <<"message", "text">>, <<"sendText">> >>

\* candidates that append the suffixes whatever the URL ends in
normalizeCandidatesAlwaysAppend(baseOrFull) ==
  [ k \in 1..Len(Endpoints) |-> stripSlashes(baseOrFull) \o Endpoints[k] ]

normalizeCandidates(baseOrFull) ==
  LET clean == stripSlashes(baseOrFull)
      hasEndpoint == \E k \in 1..Len(Endpoints) :
                       EndsWith(lower(clean), lower(Endpoints[k]))
  IN  IF hasEndpoint THEN << clean >>
      ELSE [ k \in 1..Len(Endpoints) |-> clean \o Endpoints[k] ]

\* res.ok
resOk(res) == res.status >= 200 /\ res.status <= 299

\* A parsed body (data) is a text or a JSON object; of an object the fields
\* step and url count (url is Null when it is missing or not a string); len
\* is the length of the body as the failure message prints it.
TextData(t, n) == [ isObject |-> FALSE, text |-> t, step |-> "", url |-> Null, len |-> n ]
ObjectData(st, u, n) == [ isObject |-> TRUE, text |-> "", step |-> st, url |-> u, len |-> n ]

\* a hint taken from every non-2xx response
fallbackOfAnyStatus(res) ==
  IF ~IsNull(res.header) /\ Val(res.header) # << >> THEN res.header
  ELSE IF res.data.isObject /\ res.data.step = "fallback" /\ ~IsNull(res.data.url)
            /\ Val(res.data.url) # << >>
    THEN res.data.url
  ELSE Null

\* headerFallback || bodyFallback when the status is 404, if it is truthy
fallbackOf(res) ==
  IF res.status # 404 THEN Null
  ELSE IF ~IsNull(res.header) /\ Val(res.header) # << >> THEN res.header
  ELSE IF res.data.isObject /\ res.data.step = "fallback" /\ ~IsNull(res.data.url)
            /\ Val(res.data.url) # << >>
    THEN res.data.url
  ELSE Null

\* the length of a path segment, and of a URL with its origin
segLen(g) ==
  CASE g = "" -> 0
    [] g \in {"api", "alt", "API"} -> 3
    [] g \in {"send", "text", "SEND", "TEXT"} -> 4
    [] g = "message" -> 7
    [] g = "sendText" -> 8
    [] OTHER -> 1

OriginLen == 19

RECURSIVE pathLen(_)
pathLen(u) == IF u = << >> THEN 0 ELSE 1 + segLen(Head(u)) + pathLen(Tail(u))

urlLen(u) == OriginLen + pathLen(u)

\* `${t.status} ${t.url} -> ${d}`, d the text itself or JSON.stringify(data)
lineOf(t) ==
  [ status |-> t.status, url |-> t.url,
    d |-> [ json |-> t.data.isObject, of |-> t.data ],
    len |-> 3 + 1 + urlLen(t.url) + 4 + t.data.len ]

RECURSIVE sumLen(_)
sumLen(ls) == IF ls = << >> THEN 0 ELSE Head(ls).len + sumLen(Tail(ls))

TriedHeadLen == 29

\* a failure message without the list of requests
triedErrorBare(tried) ==
  [ head |-> "Falha ao enviar (tentativas):", lines |-> << >>, len |-> TriedHeadLen + 1 ]

\* new Error(`Falha ao enviar (tentativas):\n${lines.join("\n")}`)
triedError(tried) ==
  LET lines == [ n \in 1..Len(tried) |-> lineOf(tried[n]) ]
  IN  [ head |-> "Falha ao enviar (tentativas):", lines |-> lines,
        len |-> TriedHeadLen + 1 + sumLen(lines) + Max(0, Len(lines) - 1) ]

configError == [ head |-> "UAZAPIGO_API_URL ausente", lines |-> << >>, len |-> 24 ]

\* the next candidate of the outer loop, or the throw that follows the loop
nextPrimary(o) ==
  IF o.i < Len(o.first)
    THEN [ o EXCEPT !.pc = "first", !.i = o.i + 1, !.alts = << >>, !.k = 0 ]
    ELSE [ o EXCEPT !.pc = "thrown", !.alts = << >>, !.k = 0,
                    !.error = Some(triedError(o.tried)) ]

\* tryPost(url) answered res: the request and the entry pushed on tried
posted(o, url, res) ==
  [ o EXCEPT !.fetched = Append(@, url),
             !.tried = Append(@, [ url |-> url, status |-> res.status, data |-> res.data ]) ]

\* a response to a primary candidate that never ends the send
afterPrimaryNoReturn(o, res) ==
  LET t == posted(o, o.first[o.i], res)
  IN  IF ~IsNull(fallbackOf(res))
        THEN [ t EXCEPT !.pc = "fallback",
                        !.alts = normalizeCandidates(Val(fallbackOf(res))), !.k = 1 ]
        ELSE nextPrimary(t)

\* the response to the request for the primary candidate first[i]
afterPrimary(o, res) ==
  LET t == posted(o, o.first[o.i], res)
  IN  IF resOk(res) THEN [ t EXCEPT !.pc = "returned" ]
      ELSE IF ~IsNull(fallbackOf(res))
        THEN [ t EXCEPT !.pc = "fallback",
                        !.alts = normalizeCandidates(Val(fallbackOf(res))), !.k = 1 ]
        ELSE nextPrimary(t)

\* a fallback loop that follows the hint of a fallback candidate's answer
\* (up to 20 requests)
afterFallbackFollowsHint(o, res) ==
  LET t == posted(o, o.alts[o.k], res)
  IN  IF resOk(res) THEN [ t EXCEPT !.pc = "returned" ]
      ELSE IF ~IsNull(fallbackOf(res)) /\ Len(t.fetched) < 20
        THEN [ t EXCEPT !.alts = normalizeCandidates(Val(fallbackOf(res))), !.k = 1 ]
      ELSE IF o.k < Len(o.alts) THEN [ t EXCEPT !.k = o.k + 1 ]
      ELSE nextPrimary(t)

\* the response to the request for the fallback candidate alts[k]
afterFallback(o, res) ==
  LET t == posted(o, o.alts[o.k], res)
  IN  IF resOk(res) THEN [ t EXCEPT !.pc = "returned" ]
      ELSE IF o.k < Len(o.alts) THEN [ t EXCEPT !.k = o.k + 1 ]
      ELSE nextPrimary(t)

\* the checks on the configuration, then the first candidates
sendEntry(configOk, base) ==
  [ pc |-> IF configOk THEN "first" ELSE "thrown",
    first |-> IF configOk THEN normalizeCandidates(base) ELSE << >>,
    i |-> IF configOk THEN 1 ELSE 0,
    alts |-> << >>, k |-> 0, tried |-> << >>, fetched |-> << >>,
    error |-> IF configOk THEN Null ELSE Some(configError) ]

ApiBases ==
  { <<"api">>, <<"api", "">>, <<"api", "send", "text", "">>, <<"API", "SEND", "TEXT">>,
    <<"api", "sendText">> }

urlAltFull == <<"alt", "message", "text">>
urlAlt == <<"alt">>

\* answers: 2xx; 500 with a hint; 404 without a hint; 404 with a hint in the
\* header; 404 with an empty header and a hint in the body; 404 with a body
\* that is no hint (other step, url not a string, empty url)
resOk200 == [ status |-> 200, header |-> Null, data |-> TextData("ok", 2) ]
resOk204 == [ status |-> 204, header |-> Null, data |-> TextData("", 0) ]
res500Hint == [ status |-> 500, header |-> Some(urlAltFull), data |-> ObjectData("fallback", Some(urlAlt), 40) ]
res404 == [ status |-> 404, header |-> Null, data |-> TextData("nf", 9) ]
res404Header == [ status |-> 404, header |-> Some(urlAltFull), data |-> TextData("nf", 9) ]
res404Body == [ status |-> 404, header |-> Some(<< >>), data |-> ObjectData("fallback", Some(urlAlt), 40) ]
res404OtherStep == [ status |-> 404, header |-> Null, data |-> ObjectData("other", Some(urlAlt), 37) ]
res404UrlNoString == [ status |-> 404, header |-> Null, data |-> ObjectData("fallback", Null, 28) ]
res404UrlEmpty == [ status |-> 404, header |-> Null, data |-> ObjectData("fallback", Some(<< >>), 26) ]

Responses ==
  { resOk200, resOk204, res500Hint, res404, res404Header, res404Body,
    res404OtherStep, res404UrlNoString, res404UrlEmpty }

\* the answers a fallback candidate gets
FallbackResponses == { resOk204, res500Hint, res404Header }

InitSend ==
  /\ clock = Clock0
  /\ \E ok \in BOOLEAN :
       env = [ configOk |-> ok, hostOffsetMin |-> 0, instanceName |-> <<"m">> ]
  /\ batches = << >>
  /\ messages = << >>
  /\ proc = [ d \in Procs |-> IdleProc ]
  /\ hist = << >>
  /\ faults = 0
  /\ \E base \in ApiBases :
       eval = [ fn |-> "sendViaUazapi", arg |-> << base >>, out |-> Null ]

\* the configuration checks and the first candidates
SendStart ==
  /\ eval.fn = "sendViaUazapi"
  /\ IsNull(eval.out)
  /\ eval' = [ eval EXCEPT !.out = Some(sendEntry(env.configOk, eval.arg[1])) ]
  /\ UNCHANGED << clock, env, batches, messages, proc, hist, faults >>

TryPostPrimary(res) ==
  /\ eval.fn = "sendViaUazapi"
  /\ ~IsNull(eval.out)
  /\ Val(eval.out).pc = "first"
  /\ eval' = [ eval EXCEPT !.out = Some(afterPrimary(Val(eval.out), res)) ]
  /\ UNCHANGED << clock, env, batches, messages, proc, hist, faults >>

TryPostFallback(res) ==
  /\ eval.fn = "sendViaUazapi"
  /\ ~IsNull(eval.out)
  /\ Val(eval.out).pc = "fallback"
  /\ eval' = [ eval EXCEPT !.out = Some(afterFallback(Val(eval.out), res)) ]
  /\ UNCHANGED << clock, env, batches, messages, proc, hist, faults >>

NextSend ==
  \/ SendStart
  \/ \E res \in Responses : TryPostPrimary(res)
  \/ \E res \in FallbackResponses : TryPostFallback(res)

SendSpec == InitSend /\ [][NextSend]_vars

\* every HTTP request returns: a call that can take a step takes one
SendLiveSpec == InitSend /\ [][NextSend]_vars /\ WF_vars(NextSend)

\* a call of sendViaUazapi is under way or has ended
Sending == eval.fn = "sendViaUazapi" /\ ~IsNull(eval.out)

\* the drain of one message with the transport call followed request by
\* request: API_BASE has no endpoint, and a candidate answers 2xx, 404 with a
\* short or a long body, 404 with a JSON body that is no hint, or 404 with a
\* hint in the header
DiagBase == <<"api">>

res404Long == [ status |-> 404, header |-> Null, data |-> TextData("page", 1500) ]

DiagResponses == { resOk200, res404, res404Long, res404OtherStep, res404Header }
DiagFallbackResponses == { resOk204, res500Hint }

DiagCreate == batches = << >> /\ PostCreate(1, BodyAna)

\* the call sendViaUazapi(to, text) of the current attempt
CallOf(p) == << DiagBase, p.jobs[p.j].id, p.attempt >>

CallStart(d) ==
  /\ proc[d].pc = "send"
  /\ eval.fn # "sendViaUazapi" \/ eval.arg # CallOf(proc[d])
  /\ eval' = [ fn |-> "sendViaUazapi", arg |-> CallOf(proc[d]),
               out |-> Some(sendEntry(env.configOk, DiagBase)) ]
  /\ UNCHANGED << clock, env, batches, messages, proc, hist, faults >>

CallReturns(d) ==
  /\ proc[d].pc = "send"
  /\ Sending
  /\ eval.arg = CallOf(proc[d])
  /\ Val(eval.out).pc = "returned"
  /\ SendOk(d, 0)

\* the failure is caught: last = getErrMsg(e), the message of the Error
CallThrows(d) ==
  /\ proc[d].pc = "send"
  /\ Sending
  /\ eval.arg = CallOf(proc[d])
  /\ Val(eval.out).pc = "thrown"
  /\ SendFail(d, [ tag |-> Val(Val(eval.out).error).head,
                   len |-> Val(Val(eval.out).error).len ])

NextDiag ==
  \/ DiagCreate
  \/ \E k \in 0..(RandDenom - 1) : JitterStep(1, k)
  \/ Select(1)
  \/ Mark(1)
  \/ CallStart(1)
  \/ \E res \in DiagResponses : TryPostPrimary(res)
  \/ \E res \in DiagFallbackResponses : TryPostFallback(res)
  \/ CallReturns(1)
  \/ CallThrows(1)
  \/ SleepDone(1)
  \/ Record(1)
  \/ Respond(1)

DiagSpec == Init /\ [][NextDiag]_vars

(* ------------------- the drain and a failing store ------------------- *)
\* the select of the drain fails: processChunk throws and POST answers 500
SelectFails(d) ==
  /\ proc[d].pc = "select"
  /\ faults < MaxFaults
  /\ faults' = faults + 1
  /\ SetProc(d, Reject(500, "store_error"))
  /\ UNCHANGED << clock, env, eval, batches, messages, hist >>

\* the update to sending fails; its result is not read
MarkLost(d) ==
  /\ proc[d].pc = "mark"
  /\ faults < MaxFaults
  /\ faults' = faults + 1
  /\ SetProc(d, [ proc[d] EXCEPT !.pc = "send", !.attempt = 1, !.ok = FALSE,
                                 !.last = Null, !.tries = 0 ])
  /\ UNCHANGED << clock, env, eval, batches, messages, hist >>

\* the answer of GET to ?batchId=bid (0 when the parameter is missing)
GetResponse(bid) ==
  IF bid = 0
    THEN [ status |-> 400, ok |-> FALSE, error |-> "missing batchId", body |-> Null ]
    ELSE [ status |-> 200, ok |-> TRUE, error |-> "", body |-> Some(GET(bid)) ]

\* GET runs; its select is answered at once
GetStatus(bid) ==
  /\ eval' = [ fn |-> "GET", arg |-> << bid >>, out |-> Some(GetResponse(bid)) ]
  /\ eval' # eval
  /\ UNCHANGED << clock, env, batches, messages, proc, hist, faults >>

\* the select of GET fails
GetFails(bid) ==
  /\ bid # 0
  /\ faults < MaxFaults
  /\ faults' = faults + 1
  /\ eval' = [ fn |-> "GET", arg |-> << bid >>,
               out |-> Some([ status |-> 500, ok |-> FALSE, error |-> "store_error",
                              body |-> Null ]) ]
  /\ UNCHANGED << clock, env, batches, messages, proc, hist >>

FaultBodies == { Body0, [ Body0 EXCEPT !.contacts = << cAna, cAna >> ] }
FaultErr == [ tag |-> "e500", len |-> 2300 ]

\* the create of the only batch
FaultCreate(body) == batches = << >> /\ PostCreate(1, body)

NextFault ==
  \/ \E body \in FaultBodies : FaultCreate(body)
  \/ \E k \in 0..(RandDenom - 1) : JitterStep(1, k)
  \/ PostResume(1, 1, DefaultLimit, DefaultBudgetMs)
  \/ Select(1)
  \/ SelectFails(1)
  \/ Mark(1)
  \/ MarkLost(1)
  \/ \E lat \in Latencies : SendOk(1, lat)
  \/ SendFail(1, FaultErr)
  \/ SleepDone(1)
  \/ Record(1)
  \/ RecordLost(1)
  \/ Respond(1)
  \/ Tick

FaultSpec == Init /\ [][NextFault]_vars

\* GET at any moment of the life of a batch whose transport calls can fail
NextStatus ==
  \/ \E body \in FaultBodies : FaultCreate(body)
  \/ \E k \in 0..(RandDenom - 1) : JitterStep(1, k)
  \/ PostResume(1, 1, DefaultLimit, DefaultBudgetMs)
  \/ Select(1)
  \/ Mark(1)
  \/ SendOk(1, 0)
  \/ SendFail(1, FaultErr)
  \/ SleepDone(1)
  \/ Record(1)
  \/ Respond(1)
  \/ Tick
  \/ \E bid \in {0} \cup BatchIds : GetStatus(bid)
  \/ \E bid \in BatchIds : GetFails(bid)

StatusSpec == Init /\ [][NextStatus]_vars

(* ------------------- a create that a storage error ends --------------- *)
\* a failure that puts the rewritten scheduled times back
JitterFailsRolledBack(d) ==
  /\ proc[d].pc = "jitter"
  /\ faults < MaxFaults
  /\ faults' = faults + 1
  /\ messages' = [ m \in MsgIds |->
                     IF hist[m].jittered
                       THEN [ messages[m] EXCEPT !.scheduled_at = hist[m].pre ]
                       ELSE messages[m] ]
  /\ SetProc(d, Reject(500, "store_error"))
  /\ UNCHANGED << clock, env, eval, batches, hist >>

\* an update of applyJitterAndPause fails (or, before the first one, its
\* select): the function throws and POST answers 500 from its catch
JitterFails(d) ==
  /\ proc[d].pc = "jitter"
  /\ faults < MaxFaults
  /\ faults' = faults + 1
  /\ SetProc(d, Reject(500, "store_error"))
  /\ UNCHANGED << clock, env, eval, batches, messages, hist >>

\* two messages to send from now on, or from a time that has passed
PartialBodies ==
  { [ Body0 EXCEPT !.textPool = << tplHi, tplNum >>, !.startAtMs = st ] :
      st \in { Null, Some(T1000Yesterday) } }

PartialCreate(body) == batches = << >> /\ PostCreate(1, body)

NextPartial ==
  \/ \E body \in PartialBodies : PartialCreate(body)
  \/ \E k \in 0..(RandDenom - 1) : JitterStep(1, k)
  \/ JitterFails(1)
  \/ PostResume(1, 1, DefaultLimit, DefaultBudgetMs)
  \/ Select(1)
  \/ Mark(1)
  \/ SendOk(1, 0)
  \/ Record(1)
  \/ Respond(1)
  \/ Tick

PartialSpec == Init /\ [][NextPartial]_vars

(* ----------------------- drains of two batches ------------------------ *)
\* two batches of one message each, created one after the other and drained
\* by their creates and by resumes; transport calls succeed or fail
FrameBodies == { Body0, [ Body0 EXCEPT !.startAtMs = Some(Clock0 + 6000) ] }

NextFrame ==
  \/ \E body \in FrameBodies : PostCreate(1, body)
  \/ \E k \in 0..(RandDenom - 1) : JitterStep(1, k)
  \/ \E bid \in BatchIds : PostResume(1, bid, DefaultLimit, DefaultBudgetMs)
  \/ Select(1)
  \/ Mark(1)
  \/ \E lat \in Latencies : SendOk(1, lat)
  \/ SendFail(1, FaultErr)
  \/ SleepDone(1)
  \/ Record(1)
  \/ Respond(1)

FrameSpec == Init /\ [][NextFrame]_vars

(* ------------------------ applyJitterAndPause ------------------------- *)
\* applyJitterAndPause on a job set of up to MaxJobs messages of one contact
MaxJobs == 6

\* delayMsMin and delayMsMax of the request
JitterDelays ==
  { << DefaultDelayMsMin, DefaultDelayMsMax >>, << 2000, 2000 >>, << 5000, 1000 >>,
    << 0 - 3000, 0 - 1000 >>, << 0 - 1000, 2000 >>, << 1000, 1001 >> }

\* pauseEvery and pauseDurationMs of the request
JitterPauses == { << 0, 1000 >>, << 1, 1000 >>, << 2, 1000 >>, << 5, 1000 >>, << 0 - 1, 1000 >> }

JitterBody(n, delays, pauses) ==
  [ Body0 EXCEPT !.contacts = << cAna >>, !.textPool = [ k \in 1..n |-> tplHi ],
                 !.delayMsMin = delays[1], !.delayMsMax = delays[2],
                 !.pauseEvery = pauses[1], !.pauseDurationMs = pauses[2] ]

\* the rows of the job set as the ordered select gives them: their times
\* are equal, so in any order; here by id upwards or downwards
JitterOrders(n) == { [ k \in 1..n |-> k ], [ k \in 1..n |-> n + 1 - k ] }

\* POST has written the batch header and the rows of body, and
\* applyJitterAndPause has its rows and its cursor
AtJitter(body, order) ==
  LET rows == buildRows(1, body.contacts, body.textPool, clock, body.cadenceDays, clock)
  IN  /\ batches = << insertBatchRow(env.instanceName, "csv") >>
      /\ messages = rows
      /\ hist = [ k \in 1..Len(rows) |->
                    [ calls |-> 0, okCalls |-> 0, pre |-> rows[k].scheduled_at,
                      jittered |-> FALSE, windowed |-> ~body.ignoreWindow,
                      zone |-> Val(body.tz) ] ]
      /\ proc = [ d \in Procs |->
                    IF d = 1
                      THEN [ IdleProc EXCEPT
                               !.pc = "jitter", !.batchId = 1, !.queued = Len(rows),
                               !.rows = order,
                               !.cursor = jitterStart(clock, rows[order[1]].scheduled_at),
                               !.count = 0,
                               !.minGapMs = Max(0, Min(body.delayMsMin, body.delayMsMax)),
                               !.maxGapMs = Max(body.delayMsMin, body.delayMsMax),
                               !.pauseEvery = Max(0, body.pauseEvery),
                               !.pauseDurationMs = Max(0, body.pauseDurationMs) ]
                      ELSE IdleProc ]

InitJitter ==
  /\ clock = Clock0
  /\ env = [ configOk |-> TRUE, hostOffsetMin |-> 0, instanceName |-> <<"m">> ]
  /\ faults = 0
  /\ eval = NoEval
  /\ \E n \in 1..MaxJobs : \E delays \in JitterDelays : \E pauses \in JitterPauses :
       \E order \in JitterOrders(n) :
         AtJitter(JitterBody(n, delays, pauses), order)

\* the rewrites of the scheduled times, up to the entry of processChunk
NextJitter == \E k \in 0..(RandDenom - 1) : JitterStep(1, k)

JitterSpec == InitJitter /\ [][NextJitter]_vars

(* ------------------ the order of the transport calls ------------------ *)
\* two messages, sent from now on or from six seconds from now on
OrderBodies ==
  { [ Body0 EXCEPT !.textPool = << tplHi, tplNum >>, !.startAtMs = st ] :
      st \in { Null, Some(Clock0 + 6000) } }

OrderCreate(body) == batches = << >> /\ PostCreate(1, body)

\* the drain call observed is the first that makes a transport call
OrderResume(lim) ==
  /\ \A m \in MsgIds : hist[m].calls = 0
  /\ PostResume(1, 1, lim, DefaultBudgetMs)

\* a transport call answers at once or after two seconds
OrderLatencies == { 0, 2000 }

NextOrder ==
  \/ \E body \in OrderBodies : OrderCreate(body)
  \/ \E k \in 0..(RandDenom - 1) : JitterStep(1, k)
  \/ \E lim \in { 1, DefaultLimit } : OrderResume(lim)
  \/ Select(1)
  \/ Mark(1)
  \/ \E lat \in OrderLatencies : SendOk(1, lat)
  \/ SendFail(1, FaultErr)
  \/ SleepDone(1)
  \/ Record(1)
  \/ Respond(1)
  \/ Tick

OrderSpec == Init /\ [][NextOrder]_vars

(* ----------------------- the errors of the report -------------------- *)
MaxRows == 12
ErrorsShown == 10

\* data.filter((r) => !!r.error).slice(-10): data is the answer of the
\* select, a sequence of rows in the order the store gave them
errorsOf(data) ==
  LET withError == SelectSeq(data, LAMBDA r : ~IsNull(r.error) /\ Val(r.error).len > 0)
      n == Len(withError)
  IN  SubSeq(withError, Max(1, n - ErrorsShown + 1), n)

\* the messages of a batch of n rows; which of them failed
ReportPatterns == { "all", "odd", "none" }

reportRow(k, pattern) ==
  LET failed == pattern = "all" \/ (pattern = "odd" /\ k % 2 = 1)
  IN  [ batch_id |-> 1, numero |-> <<"5", "5", "1">>,
        status |-> IF failed THEN "error" ELSE IF pattern = "odd" THEN "sent" ELSE "queued",
        error |-> IF failed THEN Some([ tag |-> "e404", len |-> 90 ]) ELSE Null,
        payload |-> <<"H">>, created_at |-> Clock0, scheduled_at |-> Clock0,
        sent_at |-> IF ~failed /\ pattern = "odd" THEN Some(Clock0) ELSE Null ]

\* select("status, error").eq("batch_id", batchId) has no order: the store
\* answers the rows in an order of its own, here by id, by id downwards, or
\* by id from the second row on with the first row last
StoreOrders(n) ==
  { [ k \in 1..n |-> k ], [ k \in 1..n |-> n + 1 - k ], [ k \in 1..n |-> (k % n) + 1 ] }

InitReport ==
  /\ clock = Clock0
  /\ env = [ configOk |-> TRUE, hostOffsetMin |-> 0, instanceName |-> <<"m">> ]
  /\ batches = << insertBatchRow(<<"m">>, "csv") >>
  /\ \E n \in 0..MaxRows : \E pattern \in ReportPatterns :
       messages = [ k \in 1..n |-> reportRow(k, pattern) ]
  /\ proc = [ d \in Procs |-> IdleProc ]
  /\ hist = << >>
  /\ faults = 0
  /\ eval = NoEval

\* GET answers: the errors of its report, each row with the id it has in
\* the store
GetErrors(bid, order) ==
  LET data == [ k \in 1..Len(order) |->
                  [ id |-> order[k], status |-> messages[order[k]].status,
                    error |-> messages[order[k]].error ] ]
  IN  /\ eval = NoEval
      /\ eval' = [ fn |-> "GET.errors", arg |-> << bid, order >>,
                   out |-> errorsOf(data) ]
      /\ UNCHANGED << clock, env, batches, messages, proc, hist, faults >>

NextReport ==
  \E order \in StoreOrders(Len(messages)) : GetErrors(1, order)

ReportSpec == InitReport /\ [][NextReport]_vars

(* ---------------------- validation of a create ------------------------ *)
\* the process environment: credentials present or not, INSTANCE_NAME set,
\* blank or missing
ValidEnvs ==
  [ configOk : BOOLEAN, hostOffsetMin : { 0 }, instanceName : { <<"m">>, <<" ">>, << >> } ]

ValidBodies ==
  { Body0,
    [ Body0 EXCEPT !.textPool = << >> ],
    [ Body0 EXCEPT !.textPool = << <<" ">>, << >> >> ],
    [ Body0 EXCEPT !.contacts = << >> ],
    [ Body0 EXCEPT !.textPool = << >>, !.contacts = << >> ],
    [ Body0 EXCEPT !.contacts = << cBad >> ],
    [ Body0 EXCEPT !.contacts = << cBad, cBad >>, !.instanceName = Some(<<"n">>) ],
    [ Body0 EXCEPT !.instanceName = Some(<<" ">>) ],
    [ Body0 EXCEPT !.contacts = << cAna, cAna >>, !.instanceName = Some(<<"n">>) ] }

InitValid ==
  /\ clock = Clock0
  /\ env \in ValidEnvs
  /\ batches = << >>
  /\ messages = << >>
  /\ proc = [ d \in Procs |-> IdleProc ]
  /\ hist = << >>
  /\ faults = 0
  /\ eval = NoEval

NextValid ==
  \/ \E body \in ValidBodies : PostCreate(1, body)
  \/ \E k \in 0..(RandDenom - 1) : JitterStep(1, k)
  \/ Select(1)
  \/ Mark(1)
  \/ SendOk(1, 0)
  \/ Record(1)
  \/ Respond(1)

ValidSpec == InitValid /\ [][NextValid]_vars

(* --------------------------- insertBatchRow --------------------------- *)
\* a message is a sequence of words (the words are separated by one space)
lowerWord(w) ==
  CASE w = "Column" -> "column"
    [] w = "Does" -> "does"
    [] w = "Not" -> "not"
    [] w = "Exist" -> "exist"
    [] OTHER -> w

\* /column .* does not exist/i: "column ", anything, " does not exist"; the
\* two spaces of the pattern need a word (or an empty one) in between
columnDoesNotExist(msg) ==
  \E i \in 1..Len(msg) : \E j \in (i + 2)..(Len(msg) - 2) :
    /\ lowerWord(msg[i]) = "column"
    /\ lowerWord(msg[j]) = "does"
    /\ lowerWord(msg[j + 1]) = "not"
    /\ lowerWord(msg[j + 2]) = "exist"

\* no error of the store is taken for a schema-shape error
isSchemaShapeNever(res) == FALSE

\* code === "42703" || /column .* does not exist/i.test(msg)
isSchemaShape(res) ==
  ~res.ok /\ (res.code = "42703" \/ columnDoesNotExist(res.message))

BatchFields == { "instance_name", "source", "status", "lista_id", "lista_nome" }

\* the payload of the first insert: the fields that are null are deleted
fullPayload(params) ==
  LET all == [ instance_name |-> Some(params.instanceName),
               source |-> Some(params.source),
               status |-> IF IsNull(params.status) THEN Some("queued") ELSE params.status,
               lista_id |-> params.listaId,
               lista_nome |-> params.listaNome ]
  IN  [ k \in { f \in BatchFields : ~IsNull(all[f]) } |-> Val(all[k]) ]

minimal(params) ==
  [ k \in { "instance_name", "source" } |->
      IF k = "source" THEN params.source ELSE params.instanceName ]

\* the answers of the store to an insert: the row is written and its id
\* returned, or an error with a code and a message
InsertOk == [ ok |-> TRUE, code |-> "", message |-> << >> ]
Err42703 == [ ok |-> FALSE, code |-> "42703", message |-> <<"undefined", "column">> ]
ErrColumn ==
  [ ok |-> FALSE, code |-> "PGRST204",
    message |-> <<"column", "lista_id", "of", "batches", "does", "not", "exist">> ]
ErrColumnUpper ==
  [ ok |-> FALSE, code |-> "",
    message |-> <<"Column", "x", "Does", "Not", "Exist">> ]
ErrColumnNoGap ==
  [ ok |-> FALSE, code |-> "", message |-> <<"column", "does", "not", "exist">> ]
ErrDuplicate ==
  [ ok |-> FALSE, code |-> "23505", message |-> <<"duplicate", "key">> ]
InsertAnswers ==
  { InsertOk, Err42703, ErrColumn, ErrColumnUpper, ErrColumnNoGap, ErrDuplicate }

BatchParams ==
  [ instanceName : { <<"m">> },
    source : { "csv", "lista" },
    listaId : { Null, Some(7) },
    listaNome : { Null, Some("vip") },
    status : { Null, Some("paused") } ]

insertEntry ==
  [ pc |-> "first", inserts |-> << >>, results |-> << >>, ret |-> Null,
    thrown |-> Null ]

\* the call of insertBatchRow(params)
InsertStart(params) ==
  /\ eval = NoEval \/ (eval.fn = "insertBatchRow" /\ Val(eval.out).pc \in { "returned", "thrown" })
  /\ batches = << >>
  /\ eval' = [ fn |-> "insertBatchRow", arg |-> << params >>, out |-> Some(insertEntry) ]
  /\ UNCHANGED << clock, env, batches, messages, proc, hist, faults >>

\* one insert(...).select("id").single() and what follows its answer
Insert(res) ==
  /\ eval.fn = "insertBatchRow"
  /\ Val(eval.out).pc \in { "first", "minimal" }
  /\ LET o == Val(eval.out)
         params == eval.arg[1]
         payload == IF o.pc = "first" THEN fullPayload(params) ELSE minimal(params)
         sent == [ o EXCEPT !.inserts = Append(@, payload),
                            !.results = Append(@, res) ]
     IN  /\ batches' = IF res.ok THEN Append(batches, payload) ELSE batches
         /\ eval' = [ eval EXCEPT !.out = Some(
              IF res.ok
                THEN [ sent EXCEPT !.pc = "returned", !.ret = Some(Len(batches) + 1) ]
              ELSE IF o.pc = "first" /\ isSchemaShape(res)
                THEN [ sent EXCEPT !.pc = "minimal" ]
              ELSE [ sent EXCEPT !.pc = "thrown", !.thrown = Some(res.message) ]) ]
  /\ UNCHANGED << clock, env, messages, proc, hist, faults >>

NextBatch ==
  \/ \E params \in BatchParams : InsertStart(params)
  \/ \E res \in InsertAnswers : Insert(res)

BatchSpec == Init /\ [][NextBatch]_vars

(* --------------------------- the media sender ------------------------- *)
MaxMediaContacts == 2
MaxMediaFiles == 2
MediaAttempts == 2

\* a URL is the sequence of the pieces between its slashes
LocalHosts == { "localhost", "localhost:3000", "127.0.0.1", "127.0.0.1:3000" }

\* startsWith http://localhost, http://127.0.0.1, /uploads/ or uploads/
isLocalUrl(u) ==
  \/ Len(u) >= 3 /\ u[1] = "http:" /\ u[2] = "" /\ u[3] \in LocalHosts
  \/ Len(u) >= 3 /\ u[1] = "" /\ u[2] = "uploads"
  \/ Len(u) >= 2 /\ u[1] = "uploads"

\* an attempt loop that goes on after a success
mediaRetryAfterOk(attempt, ok) == attempt < MediaAttempts

\* for (let attempt = 0; attempt < 2 && !ok; attempt++)
mediaRetry(attempt, ok) == attempt < MediaAttempts /\ ~ok

\* the answer after the loops
mediaAnswer(results) ==
  LET sent == Cardinality({ n \in 1..Len(results) : results[n].sent })
      allSent == \A n \in 1..Len(results) : results[n].sent
  IN  [ status |-> IF allSent THEN 200 ELSE 207, ok |-> allSent,
        totalEnvios |-> Len(results), sucesso |-> sent,
        falha |-> Len(results) - sent ]

mediaError(code) ==
  [ status |-> code, ok |-> FALSE, totalEnvios |-> 0, sucesso |-> 0, falha |-> 0 ]

\* the head of the loop over the contacts, at contact ci: a contact without
\* number gets its failed entry and the loop goes on
RECURSIVE mediaContact(_, _, _)
mediaContact(o, contacts, ci) ==
  IF ci > Len(contacts)
    THEN [ o EXCEPT !.pc = "answered", !.ci = 0, !.fi = 0,
                    !.response = mediaAnswer(o.results) ]
  ELSE IF contacts[ci].numero = << >>
    THEN mediaContact([ o EXCEPT !.results = Append(@, [ ci |-> ci, fi |-> 0, sent |-> FALSE ]) ],
                      contacts, ci + 1)
  ELSE [ o EXCEPT !.pc = "prepare", !.ci = ci, !.fi = 1, !.attempt = 0, !.ok = FALSE ]

\* results.push for the pair (ci, fi), then the next file or the next contact
mediaPush(o, contacts, files) ==
  LET t == [ o EXCEPT !.results = Append(@, [ ci |-> o.ci, fi |-> o.fi, sent |-> o.ok ]) ]
  IN  IF o.fi < Len(files)
        THEN [ t EXCEPT !.pc = "prepare", !.fi = o.fi + 1, !.attempt = 0, !.ok = FALSE ]
        ELSE mediaContact(t, contacts, o.ci + 1)

\* the checks of the handler, then the first contact
mediaEntry(configOk, contacts, files) ==
  LET o == [ pc |-> "answered", ci |-> 0, fi |-> 0, attempt |-> 0, ok |-> FALSE,
             results |-> << >>, calls |-> << >>, response |-> mediaError(500) ]
  IN  IF ~configOk THEN o
      ELSE IF contacts = << >> \/ files = << >> THEN [ o EXCEPT !.response = mediaError(400) ]
      ELSE mediaContact(o, contacts, 1)

cNoNumber == [ nome |-> <<"B">>, numero |-> << >> ]
fileRemote == [ url |-> <<"https:", "", "cdn", "a.pdf">> ]
fileLocal == [ url |-> <<"", "uploads", "b.png">> ]

InitMedia ==
  /\ clock = Clock0
  /\ \E ok \in BOOLEAN :
       env = [ configOk |-> ok, hostOffsetMin |-> 0, instanceName |-> <<"m">> ]
  /\ batches = << >>
  /\ messages = << >>
  /\ proc = [ d \in Procs |-> IdleProc ]
  /\ hist = << >>
  /\ faults = 0
  /\ \E nc \in 0..MaxMediaContacts : \E nf \in 0..MaxMediaFiles :
       \E contacts \in [ 1..nc -> { cAna, cNoNumber } ] :
         \E files \in [ 1..nf -> { fileRemote, fileLocal } ] :
           eval = [ fn |-> "POST.media", arg |-> << contacts, files >>, out |-> Null ]

MediaStart ==
  /\ eval.fn = "POST.media"
  /\ IsNull(eval.out)
  /\ eval' = [ eval EXCEPT !.out = Some(mediaEntry(env.configOk, eval.arg[1], eval.arg[2])) ]
  /\ UNCHANGED << clock, env, batches, messages, proc, hist, faults >>

MediaAt(pc) == eval.fn = "POST.media" /\ ~IsNull(eval.out) /\ Val(eval.out).pc = pc

\* the file to send: a remote URL is made absolute, a local one is read
\* from the disk; a read that fails is caught nowhere and ends the handler
MediaPrepare(readOk) ==
  /\ MediaAt("prepare")
  /\ LET o == Val(eval.out)
         f == eval.arg[2][o.fi]
     IN  /\ ~isLocalUrl(f.url) => readOk
         /\ eval' = [ eval EXCEPT !.out = Some(
              IF readOk THEN [ o EXCEPT !.pc = "send" ]
              ELSE [ o EXCEPT !.pc = "crashed", !.response = mediaError(500) ]) ]
  /\ UNCHANGED << clock, env, batches, messages, proc, hist, faults >>

\* sendMediaUazapi answers: 2xx, or an error that is caught and followed
\* by sleep(600); then the loop condition, and after the loop the entry
MediaSend(sent) ==
  /\ MediaAt("send")
  /\ LET o == Val(eval.out)
         t == [ o EXCEPT !.calls = Append(@, [ ci |-> o.ci, fi |-> o.fi, ok |-> sent ]),
                         !.ok = sent, !.attempt = o.attempt + 1 ]
     IN  eval' = [ eval EXCEPT !.out = Some(
           IF mediaRetry(t.attempt, t.ok) THEN t
           ELSE mediaPush(t, eval.arg[1], eval.arg[2])) ]
  /\ UNCHANGED << clock, env, batches, messages, proc, hist, faults >>

NextMedia ==
  \/ MediaStart
  \/ \E readOk \in BOOLEAN : MediaPrepare(readOk)
  \/ \E sent \in BOOLEAN : MediaSend(sent)

MediaSpec == InitMedia /\ [][NextMedia]_vars

(* ------------------------------ claims -------------------------------- *)
Terminal(m) == messages[m].status \in {"sent", "error"}

JobIds(p) == { p.jobs[k].id : k \in 1..Len(p.jobs) }

\* C1: with one drain at a time and a store whose updates succeed, a message
\* whose transport call has succeeded receives no further transport call, so
\* no message is successfully sent twice.
C1_NoCallAfterSuccess ==
  [][ \A m \in MsgIds :
        hist[m].okCalls >= 1 =>
          /\ hist'[m].calls = hist[m].calls
          /\ hist'[m].okCalls = 1 ]_vars

\* a later resume of the batch is selecting while a message of it has been sent
C1_Witness ==
  \E m \in MsgIds :
    /\ hist[m].okCalls = 1
    /\ proc[1].pc = "select"
    /\ proc[1].resume
    /\ proc[1].batchId = messages[m].batch_id
    /\ messages[m].scheduled_at <= proc[1].nowIso

\* C3: a selection holds only messages of the drain's batch that are queued
\* or sending (never sent) and scheduled no later than the time of selection
\* plus 1500 ms, and at most limit of them.
C3_SelectionFilter ==
  [][ \A d \in Procs :
        (proc[d].pc = "select" /\ proc'[d].pc = "mark") =>
          /\ Len(proc'[d].jobs) <= proc[d].limit
          /\ \A m \in JobIds(proc'[d]) :
               /\ messages[m].batch_id = proc[d].batchId
               /\ messages[m].status \in {"queued", "sending"}
               /\ messages[m].status # "sent"
               /\ messages[m].scheduled_at <= clock + SlackMs ]_vars

\* a selection cut by the limit, made while the batch holds a sent message
\* and a message that is not yet due
C3_Witness ==
  /\ proc[1].pc = "mark"
  /\ Len(proc[1].jobs) = proc[1].limit
  /\ \E m \in MsgIds :
       /\ messages[m].batch_id = proc[1].batchId
       /\ \/ messages[m].status = "sent"
          \/ messages[m].scheduled_at > clock + SlackMs
       /\ m \notin JobIds(proc[1])

\* C4: a message left sent or error is never selected, marked sending or
\* handed to the transport again by a later drain.
C4_TerminalStays ==
  [][ \A m \in MsgIds :
        Terminal(m) =>
          /\ messages'[m].status = messages[m].status
          /\ hist'[m].calls = hist[m].calls
          /\ \A d \in Procs :
               proc[d].pc = "select" => m \notin JobIds(proc'[d]) ]_vars

\* a resume of the batch is selecting while a message of it is in error and due
C4_Witness ==
  \E m \in MsgIds :
    /\ messages[m].status = "error"
    /\ proc[1].pc = "select"
    /\ proc[1].resume
    /\ proc[1].batchId = messages[m].batch_id
    /\ messages[m].scheduled_at <= proc[1].nowIso

\* C6: for a claimed message the transport is called at least once and at
\* most 3 times, never after a success, and attempt k+1 starts no earlier
\* than 600 * k ms after attempt k failed.
C6_Attempts ==
  \A d \in Procs :
    LET p == proc[d]
    IN  /\ p.tries <= MaxAttempts
        /\ p.pc = "record" => p.tries >= 1
        /\ p.pc = "send" => ~p.ok
        /\ (p.pc = "send" /\ p.attempt > 1) =>
             clock >= p.failedAt + 600 * (p.attempt - 1)

\* the third attempt is about to start
C6_Witness ==
  /\ proc[1].pc = "send"
  /\ proc[1].attempt = 3
  /\ proc[1].tries = 2

\* C7: when the outcome of a claimed message is recorded, a success leaves it
\* sent with a null error and a sent timestamp; three failures leave it in
\* error with the last failure's message cut to 2000 characters, and the sent
\* timestamp untouched.
C7_Outcome ==
  [][ \A d \in Procs :
        (proc[d].pc = "record" /\ proc'[d].pc # "record") =>
          LET p == proc[d]
              id == p.jobs[p.j].id
              after == messages'[id]
          IN  IF p.ok
                THEN /\ after.status = "sent"
                     /\ after.error = Null
                     /\ after.sent_at # Null
                ELSE /\ p.tries = 3
                     /\ after.status = "error"
                     /\ after.error # Null
                     /\ Val(after.error).tag = Val(p.thrown).tag
                     /\ Val(after.error).len = Min(Val(p.thrown).len, 2000)
                     /\ after.sent_at = messages[id].sent_at ]_vars

\* a message in error whose text was cut to 2000 characters
C7_Witness ==
  \E m \in MsgIds :
    /\ messages[m].status = "error"
    /\ messages[m].error # Null
    /\ Val(messages[m].error).len = 2000
    /\ hist[m].calls = 3

\* C8: the processed count a drain call returns is the number of messages
\* the call brought to sent or error.
C8_ProcessedCount ==
  \A d \in Procs :
    (proc[d].pc = "done" /\ proc[d].response.status = 200) =>
      proc[d].response.processed = proc[d].brought

\* C9: a drain whose budget is 0 on entry, on a batch with due messages,
\* returns processed 0 and time-budget at once: nothing is selected or
\* changed and the transport is not called.
C9_ZeroBudget ==
  [][ \A d \in Procs, bid \in BatchIds, lim \in {1, DefaultLimit} :
        ( /\ PostResume(d, bid, lim, 0)
          /\ \E m \in MsgIds : selectable(messages[m], bid, clock + SlackMs) ) =>
          /\ proc'[d].pc = "done"
          /\ proc'[d].response.status = 200
          /\ proc'[d].response.processed = 0
          /\ proc'[d].response.reason = "time-budget"
          /\ proc'[d].brought = 0
          /\ messages' = messages
          /\ hist' = hist ]_vars

\* a resume has returned time-budget with nothing processed while a message
\* of its batch is due
C9_Witness ==
  /\ proc[1].pc = "done"
  /\ proc[1].response.resume
  /\ proc[1].response.reason = "time-budget"
  /\ proc[1].response.processed = 0
  /\ proc[1].brought = 0
  /\ \E m \in MsgIds :
       selectable(messages[m], proc[1].response.batchId, clock + SlackMs)

\* C10: the scheduled time applyJitterAndPause writes for a message is never
\* earlier than the one buildRows gave it.
C10_NeverEarlier ==
  \A m \in MsgIds :
    hist[m].jittered => messages[m].scheduled_at >= hist[m].pre

\* C2: the write that claims a job is unconditional: a drain that holds a
\* job marks it sending whatever its status has become, so two drains that
\* selected the same queued message both mark it and both call the transport.
C2_UnconditionalClaim ==
  [][ \A d \in Procs :
        (proc[d].pc = "mark" /\ proc'[d].pc = "send") =>
          messages'[proc[d].jobs[proc[d].j].id].status = "sending" ]_vars

\* both handlers selected the same message while it was queued and both
\* marked it; the transport call of one has succeeded and the other is in its
\* own call for it
C2_Witness ==
  \E m \in MsgIds :
    /\ proc[1].pc = "record" /\ proc[1].ok
    /\ proc[2].pc = "send"
    /\ proc[1].jobs[proc[1].j].id = m /\ proc[1].jobs[proc[1].j].status = "queued"
    /\ proc[2].jobs[proc[2].j].id = m /\ proc[2].jobs[proc[2].j].status = "queued"
    /\ hist[m].okCalls = 1

\* C5: when the batch is resumed again and again, one drain at a time with
\* a positive budget, the clock advances and every call returns, every
\* message (also one left in sending by an earlier slice) ends sent or error;
\* from then on a resume answers no-jobs and the status report of every batch
\* shows queued = 0 and inProgress = false.
Drained ==
  /\ \A m \in MsgIds : Terminal(m)
  /\ \A bid \in BatchIds : GET(bid).queued = 0 /\ ~GET(bid).inProgress
  /\ (proc[1].pc = "done" /\ proc[1].response.resume) =>
       /\ proc[1].response.reason = "no-jobs"
       /\ proc[1].response.processed = 0

C5_EventuallyDrained == <>[]Drained

\* a resume answers no-jobs on a drained batch, one message of which an
\* earlier slice had left in sending
C5_Witness ==
  /\ faults = 1
  /\ MsgIds # {}
  /\ Drained
  /\ proc[1].pc = "done"
  /\ proc[1].response.resume

\* C11: applyJitterAndPause takes the messages in ascending order of their
\* pre-jitter time; the time it writes for the first is max(now, its
\* pre-jitter time), so not before now, and the time it writes for each
\* later one is not before the time written for the one before it; a time
\* once written stays.
C11_NonDecreasing ==
  [][ \A d \in Procs :
        proc[d].pc = "jitter" =>
          LET p == proc[d]
              i == p.count + 1
              r == p.rows[i]
          IN  /\ \A a, b \in 1..Len(p.rows) :
                   a < b => hist[p.rows[a]].pre <= hist[p.rows[b]].pre
              /\ i = 1 => /\ messages'[r].scheduled_at = Max(clock, hist[r].pre)
                          /\ messages'[r].scheduled_at >= clock
              /\ i > 1 => messages'[r].scheduled_at >= messages'[p.rows[i - 1]].scheduled_at
              /\ \A a \in 1..(i - 1) :
                   messages'[p.rows[a]].scheduled_at = messages[p.rows[a]].scheduled_at ]_vars

\* the jitter of a batch whose anchor lies in the past is complete: the first
\* message is scheduled now and a later one, after gap and pause, later
C11_Witness ==
  /\ proc[1].pc = "select"
  /\ ~proc[1].resume
  /\ \E a, b \in MsgIds :
       /\ hist[a].jittered /\ hist[b].jittered
       /\ hist[a].pre < clock
       /\ messages[a].scheduled_at = clock
       /\ messages[b].scheduled_at >= messages[a].scheduled_at + 2000 + MinuteMs

\* C12: when the create request does not bypass the window, every message of
\* the batch has, once rows are built and jitter applied, a scheduled time
\* whose local hour in the request's timezone lies in [08:00, 18:00).
C12_WindowEnforced ==
  \A m \in MsgIds :
    (hist[m].windowed /\ proc[1].pc # "jitter") =>
      inWindow(messages[m].scheduled_at, hist[m].zone)

\* 08:00 local in tz of the local calendar day of t
today0800(t, tz) == ((t + tz * MinuteMs) \div DayMs) * DayMs + 8 * HourMs - tz * MinuteMs

\* C13: for every instant, timezone and host timezone, next0800 returns an
\* instant that reads exactly 08:00 on the local clock of the timezone, and
\* inWindow holds of it.
C13_Exactly0800 ==
  /\ (eval.fn = "next0800" /\ ~IsNull(eval.out)) =>
       (Val(eval.out) + eval.arg[2] * MinuteMs) % DayMs = 8 * HourMs
  /\ eval.fn = "inWindow" => Val(eval.out)

\* C14: next0800 returns today's local 08:00 when t is before it and
\* tomorrow's local 08:00 otherwise; the result is not before t and not more
\* than one day after t.
C14_TodayOrTomorrow ==
  (eval.fn = "next0800" /\ ~IsNull(eval.out)) =>
    LET t == eval.arg[1]
        tz == eval.arg[2]
        out == Val(eval.out)
    IN  /\ out = IF t < today0800(t, tz) THEN today0800(t, tz)
                  ELSE today0800(t, tz) + DayMs
        /\ out >= t
        /\ out <= t + DayMs

Built == eval.fn = "buildRows" /\ ~IsNull(eval.out)

\* how many contacts of a list have an address that normalises to a non-empty
\* string, and how many have an address that holds a digit
ValidContacts(cs) == Cardinality({ k \in 1..Len(cs) : norm(cs[k].numero) # << >> })

WithDigit(cs) == Cardinality({ k \in 1..Len(cs) : \E i \in 1..Len(cs[k].numero) : cs[k].numero[i] \in DigitChars })

\* C15: buildRows emits V * (1 + |cadenceDays|) * |textPool| rows, V the
\* number of contacts whose address normalises to a non-empty string; every
\* row carries the batch id, status queued, a null error, and a scheduled
\* time that is the anchor or the anchor plus d days for an offset d.
C15_RowCount ==
  Built =>
    LET a == eval.arg
        rows == Val(eval.out)
        V == ValidContacts(a.contacts)
    IN  /\ Len(rows) = V * (1 + Len(a.cadenceDays)) * Len(a.textPool)
        /\ \A k \in 1..Len(rows) :
             /\ rows[k].batch_id = a.batchId
             /\ rows[k].status = "queued"
             /\ rows[k].error = Null
             /\ rows[k].scheduled_at \in
                  { a.startAtMs } \cup
                  { a.startAtMs + d * 86400000 : d \in Range(a.cadenceDays) }

\* rows were built for two contacts, one of them without a valid address,
\* two templates and two offsets
C15_Witness ==
  /\ Built
  /\ Len(eval.arg.contacts) = 2
  /\ cBad \in Range(eval.arg.contacts)
  /\ Len(eval.arg.textPool) = 2
  /\ Len(eval.arg.cadenceDays) = 2
  /\ Len(Val(eval.out)) = 6

\* a text that holds a token {{...}}
HasToken(s) ==
  \E i, j \in 1..(Len(s) - 1) :
    /\ s[i] = "{" /\ s[i + 1] = "{"
    /\ j >= i + 2
    /\ s[j] = "}" /\ s[j + 1] = "}"

\* C16: no token {{...}} remains in the payload text of an emitted row: the
\* tokens of the contact's fields are replaced by their values and the tokens
\* of fields the contact does not define by the empty string.
C16_NoTokenLeft ==
  Built => \A k \in 1..Len(Val(eval.out)) : ~HasToken(Val(eval.out)[k].payload)

\* C17: norm(norm(x)) = norm(x) for every string x, and a contact whose
\* address holds no digit normalises to the empty string and yields no row.
C17_NormIdempotent ==
  /\ (eval.fn = "norm" /\ Len(eval.out) = 2) => eval.out[2] = eval.out[1]
  /\ Built =>
       /\ \A c \in Range(eval.arg.contacts) :
            (\A i \in 1..Len(c.numero) : c.numero[i] \notin DigitChars) =>
              norm(c.numero) = << >>
       /\ Len(Val(eval.out)) =
            WithDigit(eval.arg.contacts)
              * (1 + Len(eval.arg.cadenceDays)) * Len(eval.arg.textPool)

\* norm was applied twice to an address that it changes
C17_Witness ==
  /\ eval.fn = "norm"
  /\ Len(eval.out) = 2
  /\ eval.out[1] # eval.arg[1]
  /\ eval.out[1] # << >>

\* C18: for a national number (area code and local digits, no country code),
\* area code 55 included, norm returns its digits prefixed with 55.
C18_NationalPrefixed ==
  (eval.fn = "norm" /\ eval.arg[1] \in NationalNumbers /\ eval.out # << >>) =>
    eval.out[1] = <<"5", "5">> \o digits(eval.arg[1])

OkAnswers(o) == { n \in 1..Len(o.tried) : o.tried[n].status \in 200..299 }

\* C20: in sendViaUazapi a request answered 2xx, for a primary or a fallback
\* candidate, ends the send with success at once: the send has returned, the
\* 2xx answer is the last request made, and no request follows it.
C20_OkEndsSend ==
  [][ (eval.fn = "sendViaUazapi" /\ ~IsNull(eval.out)) =>
        LET o == Val(eval.out)
            q == Val(eval'.out)
        IN  /\ OkAnswers(o) = {}
            /\ OkAnswers(q) # {} =>
                 /\ q.pc = "returned"
                 /\ OkAnswers(q) = { Len(q.tried) }
            /\ q.pc = "returned" => OkAnswers(q) # {} ]_vars

\* the send has returned on a 2xx answer to a fallback candidate, with
\* fallback and primary candidates left untried
C20_Witness ==
  /\ eval.fn = "sendViaUazapi"
  /\ ~IsNull(eval.out)
  /\ Val(eval.out).pc = "returned"
  /\ Val(eval.out).k >= 1
  /\ Val(eval.out).k < Len(Val(eval.out).alts)
  /\ Val(eval.out).i < Len(Val(eval.out).first)
  /\ Val(eval.out).tried[Len(Val(eval.out).tried)].status = 204

\* the requests made so far for primary candidates, in request order
PrimaryRequests(o) == SelectSeq(o.fetched, LAMBDA u : u \in Range(o.first))

Hinted(res) ==
  \/ ~IsNull(res.header) /\ Val(res.header) # << >>
  \/ res.data.isObject /\ res.data.step = "fallback"
       /\ ~IsNull(res.data.url) /\ Val(res.data.url) # << >>

HintOf(res) ==
  IF ~IsNull(res.header) /\ Val(res.header) # << >> THEN Val(res.header)
  ELSE Val(res.data.url)

\* C22: a fallback candidate is requested only after a primary candidate
\* answered 404 with a hint, and then the candidates derived from the hinted
\* base are requested one after the other, all of them unless one answers
\* 2xx, before the send goes on or gives up; a non-2xx answer other than 404,
\* or a 404 without a hint, starts no fallback.
C22_FallbackOnHint ==
  [][ Sending =>
        LET o == Val(eval.out)
            q == Val(eval'.out)
        IN  /\ \A res \in Responses :
                 TryPostPrimary(res) =>
                   /\ q.fetched = Append(o.fetched, o.first[o.i])
                   /\ q.pc = "fallback" <=> (res.status = 404 /\ Hinted(res))
                   /\ q.pc = "fallback" =>
                        /\ q.alts = normalizeCandidates(HintOf(res))
                        /\ q.k = 1
            /\ o.pc = "fallback" =>
                 /\ q.fetched = Append(o.fetched, o.alts[o.k])
                 /\ q.pc = "fallback" => (q.alts = o.alts /\ q.k = o.k + 1)
                 /\ q.pc \in {"first", "thrown"} => o.k = Len(o.alts)
                 /\ q.pc = "returned" => q.tried[Len(q.tried)].status \in 200..299
            /\ o.pc # "fallback" => (q.alts = << >> \/ q.pc = "fallback") ]_vars

\* the send gave up after a body hint whose three candidates all failed
C22_Witness ==
  /\ Sending
  /\ Val(eval.out).pc = "thrown"
  /\ \E a \in 1..Len(Val(eval.out).fetched) :
       /\ a + 2 <= Len(Val(eval.out).fetched)
       /\ Val(eval.out).fetched[a] = <<"alt", "send", "text">>
       /\ Val(eval.out).fetched[a + 1] = <<"alt", "message", "text">>
       /\ Val(eval.out).fetched[a + 2] = <<"alt", "sendText">>

\* the failure of a send that has given up lists the requests made: one line
\* per request, in request order, with its status, URL and body; after 404
\* without a hint on the three suffix candidates these are 3 lines
FailureLists(e) ==
  (e.fn = "sendViaUazapi" /\ ~IsNull(e.out)) =>
    LET o == Val(e.out)
    IN  /\ o.pc = "returned" => OkAnswers(o) # {}
        /\ o.pc = "thrown" =>
             /\ OkAnswers(o) = {}
             /\ ~IsNull(o.error)
             /\ Len(Val(o.error).lines) = Len(o.fetched)
             /\ \A n \in 1..Len(o.fetched) :
                  /\ Val(o.error).lines[n].url = o.fetched[n]
                  /\ Val(o.error).lines[n].status = o.tried[n].status
                  /\ Val(o.error).lines[n].d.of = o.tried[n].data
                  /\ Val(o.error).lines[n].d.json = o.tried[n].data.isObject
             /\ (\A n \in 1..Len(o.tried) :
                   o.tried[n].status = 404 /\ o.tried[n].url \in Range(o.first)) =>
                  /\ Len(Val(o.error).lines) = 3
                  /\ [ n \in 1..3 |-> Val(o.error).lines[n].url ] =
                       << <<"api", "send", "text">>, <<"api", "message", "text">>,
                          <<"api", "sendText">> >>

\* C23: when no request of a send answers 2xx, sendViaUazapi raises a
\* failure that lists every request made, in order, with status, URL and
\* body (3 lines after 404 without a hint on the three suffix candidates);
\* and the drain records, after 3 failed attempts, the status error with
\* a diagnostic that is the first 2000 characters of the last failure.
C23_FailureDiagnostic ==
  [][ /\ FailureLists(eval')
      /\ \A d \in Procs :
           (proc[d].pc = "record" /\ proc'[d].pc # "record" /\ ~proc[d].ok) =>
             LET id == proc[d].jobs[proc[d].j].id
                 after == messages'[id]
             IN  /\ proc[d].tries = 3
                 /\ Sending /\ Val(eval.out).pc = "thrown"
                 /\ after.status = "error"
                 /\ ~IsNull(after.error)
                 /\ Val(after.error).tag = Val(Val(eval.out).error).head
                 /\ Val(after.error).len = Min(Val(Val(eval.out).error).len, 2000)
                 /\ Val(after.error).len <= 2000 ]_vars

\* the message is in error after 3 attempts, the last of which got 404
\* without a hint from the three suffix candidates; the diagnostic was cut
C23_Witness ==
  /\ Len(messages) = 1
  /\ messages[1].status = "error"
  /\ hist[1].calls = 3
  /\ Val(messages[1].error).len = 2000
  /\ Sending
  /\ Val(eval.out).pc = "thrown"
  /\ Len(Val(Val(eval.out).error).lines) = 3
  /\ Val(Val(eval.out).error).len > 2000

InsertCall == eval.fn = "insertBatchRow" /\ ~IsNull(eval.out)

\* what the store's error codes and messages of the model are: schema-shape
\* errors are the code 42703 and the "column ... does not exist" messages
SchemaShapeAnswers == { Err42703, ErrColumn, ErrColumnUpper }

\* C24: in insertBatchRow a first insert that fails with a schema-shape
\* error is followed by exactly one further insert, which carries only
\* instance_name and source; the success of that insert returns the id of the
\* batch, and the call fails only when it fails too; a first insert that
\* fails with another error is followed by no insert and the call fails.
C24_SchemaShapeRetry ==
  InsertCall =>
    LET o == Val(eval.out)
        params == eval.arg[1]
        n == Len(o.results)
        over == o.pc \in { "returned", "thrown" }
    IN  /\ n <= 2 /\ Len(o.inserts) = n
        /\ over => n >= 1
        /\ (n >= 1 /\ o.results[1] \in SchemaShapeAnswers) =>
             /\ o.pc = "minimal" => n = 1
             /\ over =>
                  /\ n = 2
                  /\ DOMAIN o.inserts[2] = { "instance_name", "source" }
                  /\ o.inserts[2].instance_name = params.instanceName
                  /\ o.inserts[2].source = params.source
                  /\ (o.results[2].ok <=> (o.pc = "returned"))
        /\ (n >= 1 /\ ~o.results[1].ok /\ o.results[1] \notin SchemaShapeAnswers) =>
             n = 1 /\ o.pc = "thrown"
        /\ o.pc = "returned" =>
             /\ o.results[n].ok
             /\ o.ret = Some(Len(batches))
             /\ batches[Val(o.ret)] = o.inserts[n]
        /\ o.pc = "thrown" => \A k \in 1..n : ~o.results[k].ok

\* the first insert failed on a missing column, the minimal insert was
\* accepted and the call returned the id of the row it wrote
C24_Witness ==
  /\ InsertCall
  /\ Val(eval.out).pc = "returned"
  /\ Val(eval.out).results = << ErrColumn, InsertOk >>
  /\ eval.arg[1].listaId = Some(7)
  /\ Len(batches) = 1
  /\ DOMAIN batches[1] = { "instance_name", "source" }

\* the template pool is empty or holds only blank templates
BlankPool(body) == \A k \in 1..Len(body.textPool) : trim(body.textPool[k]) = << >>

\* the answer of the handler to the request it has just finished
Rejected(d, code, err) ==
  /\ proc'[d].pc = "done"
  /\ proc'[d].response.status = code
  /\ ~proc'[d].response.ok
  /\ proc'[d].response.error = err

\* C25: a create request with an empty or all-blank template pool, with an
\* empty contact list, or made while the transport configuration is missing
\* is rejected with a reason code, and no batch header, no message row and
\* no transport call comes of it.
C25_RejectedBeforePersistence ==
  [][ \A body \in ValidBodies :
        (PostCreate(1, body) /\ (BlankPool(body) \/ body.contacts = << >> \/ ~env.configOk)) =>
          /\ \/ Rejected(1, 500, "config_missing") /\ ~env.configOk
             \/ Rejected(1, 400, "empty_templates") /\ BlankPool(body)
             \/ Rejected(1, 400, "empty_contacts") /\ body.contacts = << >>
          /\ batches' = batches
          /\ messages' = messages
          /\ hist' = hist ]_vars

\* a request with a blank pool was rejected while the store already held a
\* batch and its message, and the store holds no more than these
C25_Witness ==
  /\ proc[1].pc = "done"
  /\ proc[1].response.error = "empty_templates"
  /\ Len(batches) = 1
  /\ Len(messages) = 1
  /\ env.configOk

\* no address of the non-empty contact list has a digit in it
NoValidNumber(body) ==
  /\ body.contacts # << >>
  /\ \A k \in 1..Len(body.contacts) : norm(body.contacts[k].numero) = << >>

\* the request passes the checks made before the batch header is written
PassesChecks(body) ==
  /\ env.configOk
  /\ ~BlankPool(body)
  /\ trim(IF IsNull(body.instanceName) THEN env.instanceName
          ELSE Val(body.instanceName)) # << >>

\* C26: a create request whose contact list is not empty and has no
\* address that normalises to a non-empty string writes a batch header and
\* no message row, runs neither the jitter nor the drain, and is answered
\* with the condition no_valid_numbers.
C26_NoValidNumbers ==
  [][ \A body \in ValidBodies :
        (PostCreate(1, body) /\ PassesChecks(body) /\ NoValidNumber(body)) =>
          /\ Len(batches') = Len(batches) + 1
          /\ batches'[Len(batches')].instance_name =
               trim(IF IsNull(body.instanceName) THEN env.instanceName
                    ELSE Val(body.instanceName))
          /\ messages' = messages
          /\ hist' = hist
          /\ Rejected(1, 400, "no_valid_numbers") ]_vars

\* the request was answered no_valid_numbers and left a batch header, the
\* second of the store, without any message of that batch
C26_Witness ==
  /\ proc[1].pc = "done"
  /\ proc[1].response.error = "no_valid_numbers"
  /\ Len(batches) = 2
  /\ \A m \in MsgIds : messages[m].batch_id = 1

\* C27: every validation rejection of a create request, the one for contacts
\* whose addresses are all unnormalizable included, leaves the store without
\* any batch header or message row that it did not hold before the request.
C27_NothingPersisted ==
  [][ \A body \in ValidBodies :
        (PostCreate(1, body) /\ proc'[1].pc = "done" /\ ~proc'[1].response.ok) =>
          batches' = batches /\ messages' = messages ]_vars

\* C28: a storage error in the select of the drain or in one of its updates
\* (to sending, to sent or error) stops the drain call, which answers with a
\* single error and makes no further transport call.
C28_StorageErrorFatal ==
  [][ \A d \in Procs :
        (faults' > faults /\ proc[d].pc \in { "select", "mark", "record" }
           /\ proc'[d] # proc[d]) =>
          /\ proc'[d].pc = "done"
          /\ proc'[d].response.status = 500
          /\ ~proc'[d].response.ok ]_vars

\* C29: a message whose 3 transport attempts have all failed gets the
\* status error and the drain goes on: to the next selected message within
\* the budget, and otherwise to a return; and a drain that no storage error
\* has stopped answers the success envelope with a processed count and an
\* exit reason, failed messages or not.
C29_FailureNotFatal ==
  [][ LET p == proc[1]
          q == proc'[1]
      IN  /\ (Record(1) /\ ~p.ok) =>
                /\ p.tries = 3
                /\ hist[p.jobs[p.j].id].calls >= 3
                /\ messages'[p.jobs[p.j].id].status = "error"
                /\ (clock - p.startClock < p.timeBudgetMs /\ p.j < Len(p.jobs)) =>
                     (q.pc = "mark" /\ q.jobs = p.jobs /\ q.j = p.j + 1)
                /\ q.pc \in { "mark", "select", "done" }
          /\ (p.pc \in { "select", "record" } /\ q.pc = "done" /\ faults' = faults) =>
                /\ q.response.status = 200
                /\ q.response.ok
                /\ q.response.processed \in Nat
                /\ q.response.reason \in { "no-jobs", "time-budget" } ]_vars

\* the drain is at its second job after the first got 3 failed attempts and
\* the status error
C29_Witness ==
  /\ proc[1].pc = "mark"
  /\ proc[1].j = 2
  /\ messages[proc[1].jobs[1].id].status = "error"
  /\ hist[proc[1].jobs[1].id].calls = 3
  /\ hist[proc[1].jobs[1].id].okCalls = 0
  /\ faults = 0

\* the messages of a batch that have one of the statuses
CountOf(bid, statuses) ==
  Cardinality({ m \in 1..Len(messages) :
                  messages[m].batch_id = bid /\ messages[m].status \in statuses })

\* C30: the status report of a batch gives sent = its messages with status
\* sent, failed = those with status error, queued = those with status queued
\* or sending, inProgress = (queued > 0), and changes no batch and no message.
C30_StatusReport ==
  [][ \A bid \in BatchIds :
        GetStatus(bid) =>
          LET r == Val(eval'.out)
          IN  /\ r.status = 200
              /\ Val(r.body).sent = CountOf(bid, { "sent" })
              /\ Val(r.body).failed = CountOf(bid, { "error" })
              /\ Val(r.body).queued = CountOf(bid, { "queued", "sending" })
              /\ Val(r.body).inProgress = (Val(r.body).queued > 0)
              /\ batches' = batches
              /\ messages' = messages ]_vars

\* a report of a batch with a message in error and one still to send
C30_Witness ==
  /\ eval.fn = "GET"
  /\ eval.arg = << 1 >>
  /\ Val(eval.out).status = 200
  /\ Val(Val(eval.out).body).failed = 1
  /\ Val(Val(eval.out).body).queued = 1
  /\ Val(Val(eval.out).body).sent = 0
  /\ Val(Val(eval.out).body).inProgress

\* C31: the status report returns at most 10 messages, each with a non-null
\* error, and they are the most recent error-carrying messages of the batch:
\* every error-carrying message left out is older than every one returned.
C31_MostRecentErrors ==
  eval.fn = "GET.errors" =>
    LET shown == { eval.out[k].id : k \in 1..Len(eval.out) }
        withError == { m \in 1..Len(messages) :
                         messages[m].batch_id = eval.arg[1] /\ ~IsNull(messages[m].error) }
    IN  /\ Len(eval.out) <= 10
        /\ shown \subseteq withError
        /\ \A m \in withError \ shown : \A r \in shown : m < r

\* the handler makes the first transport call of its current job in this step
FirstCall(d) ==
  /\ proc[d].pc = "send"
  /\ proc[d].tries = 0
  /\ hist'[proc[d].jobs[proc[d].j].id].calls = hist[proc[d].jobs[proc[d].j].id].calls + 1

\* C32: within one drain call the messages go to the transport one at a
\* time and in ascending order of scheduled time: when the first transport
\* call of a message is made, the outcome of every message the call attempted
\* before is recorded, and none of them has a later scheduled time, whatever
\* the iteration that attempted it.
C32_OneAtATimeInOrder ==
  [][ FirstCall(1) =>
        LET id == proc[1].jobs[proc[1].j].id
        IN  \A m \in MsgIds \ { id } :
              hist[m].calls > 0 =>
                /\ messages[m].status \in { "sent", "error" }
                /\ messages[m].scheduled_at <= messages[id].scheduled_at ]_vars

\* a drain with limit 1 is about to call the transport for the second
\* message, in its second iteration, after the first message failed
C32_Witness ==
  /\ proc[1].pc = "send"
  /\ proc[1].tries = 0
  /\ proc[1].limit = 1
  /\ proc[1].jobs[proc[1].j].id = 2
  /\ hist[1].calls = 3
  /\ messages[1].status = "error"
  /\ messages[1].scheduled_at < messages[2].scheduled_at

\* C33: a message whose status is sent keeps it in every later state, under
\* every interleaving of drains on its batch: no step of a drain turns a
\* sent message into sending or error.
C33_SentStaysSent ==
  [][ \A m \in MsgIds :
        messages[m].status = "sent" => messages'[m].status = "sent" ]_vars

\* the handler rewrites the scheduled time of the row at 0-based position
\* pos > 0 of its job set in this step
Rewrites(pos) ==
  /\ proc[1].pc = "jitter"
  /\ proc[1].count = pos
  /\ pos > 0
  /\ proc'[1] # proc[1]

\* the gap the step leaves between the row at position pos and its predecessor
GapAt(pos) ==
  messages'[proc[1].rows[pos + 1]].scheduled_at - messages'[proc[1].rows[pos]].scheduled_at

\* the pause that belongs to position pos: pauseDurationMs at the positions
\* N, 2N, 3N, ... when pauseEvery = N > 0
PauseAt(pos) ==
  IF proc[1].pauseEvery > 0 /\ pos % proc[1].pauseEvery = 0
    THEN proc[1].pauseDurationMs ELSE 0

\* C34: in the schedule applyJitterAndPause writes, the gap of every message
\* after the first to its predecessor, less the pause of its position, lies in
\* [max(0, minGapMs), maxGapMs] when minGapMs < maxGapMs and is max(0, minGapMs)
\* when minGapMs >= maxGapMs; no gap is negative.
C34_GapRange ==
  [][ \A pos \in 1..MaxJobs :
        Rewrites(pos) =>
          LET g == GapAt(pos) - PauseAt(pos)
              lo == Max(0, proc[1].minGapMs)
          IN  /\ proc[1].minGapMs < proc[1].maxGapMs => (lo <= g /\ g <= proc[1].maxGapMs)
              /\ proc[1].minGapMs >= proc[1].maxGapMs => g = lo
              /\ GapAt(pos) >= 0 ]_vars

\* with gaps drawn from 1000..1001 and no pause, the second row was written
\* at the largest gap of the range and the third at the smallest
C34_Witness ==
  /\ proc[1].pc = "jitter"
  /\ proc[1].count = 3
  /\ proc[1].minGapMs = 1000
  /\ proc[1].maxGapMs = 1001
  /\ proc[1].pauseEvery = 0
  /\ messages[proc[1].rows[2]].scheduled_at - messages[proc[1].rows[1]].scheduled_at = 1001
  /\ messages[proc[1].rows[3]].scheduled_at - messages[proc[1].rows[2]].scheduled_at = 1000

\* the 0-based positions N, 2N, ... of a job set of m messages
PausePositions(m, n) == { pos \in 1..(m - 1) : n > 0 /\ pos % n = 0 }

\* C35: with pauseEvery = N > 0 applyJitterAndPause adds pauseDurationMs to
\* the gap of the messages at the 0-based positions N, 2N, 3N, ... of the
\* ordered job set and of no other, so that such a gap is at least the
\* smallest jitter gap plus the pause, and a job set of M messages gets
\* floor((M - 1) / N) pauses; with pauseEvery = 0 no pause is added.
C35_PausePositions ==
  [][ \A pos \in 1..MaxJobs :
        Rewrites(pos) =>
          LET n == proc[1].pauseEvery
              paused == n > 0 /\ pos % n = 0
              lo == Max(0, proc[1].minGapMs)
              hi == Max(lo, proc[1].maxGapMs)
          IN  /\ paused => GapAt(pos) >= lo + proc[1].pauseDurationMs
              /\ paused => GapAt(pos) <= hi + proc[1].pauseDurationMs
              /\ ~paused => GapAt(pos) <= hi
              /\ Cardinality(PausePositions(Len(proc[1].rows), n)) =
                   IF n > 0 THEN (Len(proc[1].rows) - 1) \div n ELSE 0
              /\ pos = Len(proc[1].rows) - 1 =>
                   /\ messages'[proc[1].rows[pos + 1]].scheduled_at
                         - messages'[proc[1].rows[1]].scheduled_at
                       >= pos * lo + Cardinality(PausePositions(pos + 1, n))
                                       * proc[1].pauseDurationMs
                   /\ messages'[proc[1].rows[pos + 1]].scheduled_at
                         - messages'[proc[1].rows[1]].scheduled_at
                       <= pos * hi + Cardinality(PausePositions(pos + 1, n))
                                       * proc[1].pauseDurationMs ]_vars

\* with pauseEvery = 5, a fixed gap of 2000 and a pause of 1000 the sixth
\* message of a job set of six was written 3000 after the fifth, and the
\* others 2000 after their predecessors
C35_Witness ==
  /\ proc[1].pc = "select"
  /\ Len(messages) = 6
  /\ messages[6].scheduled_at - messages[5].scheduled_at = 3000
  /\ \A k \in 2..5 : messages[k].scheduled_at - messages[k - 1].scheduled_at = 2000

\* the positions of a handler inside processChunk
DrainPcs == { "select", "mark", "send", "sleep", "record" }

\* C36: a drain call on batch B changes only status, error and sent
\* timestamp of messages of B: scheduled time, batch id, recipient address
\* and payload of every message stay as they are, and so does every field of
\* every message of another batch; the drain adds and removes no message.
C36_DrainFrame ==
  [][ proc[1].pc \in DrainPcs =>
        /\ Len(messages') = Len(messages)
        /\ \A m \in MsgIds :
             /\ messages'[m].scheduled_at = messages[m].scheduled_at
             /\ messages'[m].batch_id = messages[m].batch_id
             /\ messages'[m].numero = messages[m].numero
             /\ messages'[m].payload = messages[m].payload
             /\ messages'[m].created_at = messages[m].created_at
             /\ messages[m].batch_id # proc[1].batchId => messages'[m] = messages[m] ]_vars

\* the drain of batch 2 has recorded sent for its message after a failed
\* attempt, while the message of batch 1 is queued and due
C36_Witness ==
  /\ Len(messages) = 2
  /\ messages[1].batch_id = 1 /\ messages[1].status = "queued"
  /\ messages[1].scheduled_at <= clock
  /\ messages[2].batch_id = 2 /\ messages[2].status = "sent"
  /\ ~IsNull(messages[2].sent_at)
  /\ proc[1].pc = "done" /\ proc[1].response.batchId = 2
  /\ hist[2].calls = 2

\* C37: when a storage error ends a create after the rows were inserted or
\* after the jitter was applied to a prefix of the job set, nothing is rolled
\* back: the request answers an error, the header and the messages stay, the
\* messages queued, the rewritten ones with their new times and the others
\* with the times of their insertion, and a resume on the batch selects them
\* once they are due.
C37_NoRollback ==
  [][ JitterFails(1) =>
        /\ proc'[1].pc = "done"
        /\ proc'[1].response.status = 500
        /\ ~proc'[1].response.ok
        /\ batches' = batches
        /\ messages' = messages
        /\ \A k \in 1..Len(proc[1].rows) :
             LET m == proc[1].rows[k]
             IN  /\ messages'[m].status = "queued"
                 /\ messages'[m].batch_id = proc[1].batchId
                 /\ k <= proc[1].count <=> hist[m].jittered
                 /\ k > proc[1].count => messages'[m].scheduled_at = hist[m].pre
                 /\ k <= proc[1].count => messages'[m].scheduled_at >= clock
                 /\ selectable(messages'[m], proc[1].batchId, messages'[m].scheduled_at) ]_vars

\* the create failed after it had moved the first message from yesterday to
\* now and before it rewrote the second; a resume has sent both
C37_Witness ==
  /\ faults = 1
  /\ Len(messages) = 2
  /\ \E m, n \in MsgIds :
       /\ hist[m].jittered /\ messages[m].scheduled_at > hist[m].pre
       /\ ~hist[n].jittered /\ messages[n].scheduled_at = hist[n].pre
  /\ \A m \in MsgIds : messages[m].status = "sent"
  /\ proc[1].pc = "done" /\ proc[1].response.resume

\* the changes of status the claim allows
StatusSteps ==
  { << "queued", "sending" >>, << "sending", "sending" >>, << "sending", "sent" >>,
    << "sending", "error" >> }

\* sent timestamp and error go with the status
FieldsMatchStatus(m) ==
  /\ ~IsNull(m.sent_at) <=> m.status = "sent"
  /\ m.status \in { "queued", "sending", "sent" } => IsNull(m.error)
  /\ m.status = "error" => ~IsNull(m.error)

\* C38: with at most one drain active per batch, the status of a message
\* changes only along queued -> sending, sending -> sending, sending -> sent
\* and sending -> error; the sent timestamp is set exactly when the status is
\* sent; the error is null when the status is queued, sending or sent and
\* non-null when it is error.
C38_StatusMachine ==
  [][ /\ \A m \in MsgIds :
           messages'[m] # messages[m] =>
             \/ << messages[m].status, messages'[m].status >> \in StatusSteps
             \/ messages'[m].status = messages[m].status /\ proc[1].pc \notin DrainPcs
      /\ \A m \in 1..Len(messages') :
           /\ messages'[m].status \in { "queued", "sending", "sent", "error" }
           /\ FieldsMatchStatus(messages'[m])
           /\ m \notin MsgIds => messages'[m].status = "queued" ]_vars

\* one message is in error with its diagnostic and no sent timestamp, the
\* other is being sent
C38_Witness ==
  /\ Len(messages) = 2
  /\ messages[1].status = "error"
  /\ ~IsNull(messages[1].error) /\ IsNull(messages[1].sent_at)
  /\ messages[2].status = "sending"
  /\ IsNull(messages[2].error) /\ IsNull(messages[2].sent_at)
  /\ proc[1].pc = "send"

\* the call of sendViaUazapi has returned or thrown
SendOver == Sending /\ Val(eval.out).pc \in { "returned", "thrown" }

\* at most 3 primary candidates, each followed by at most 3 fallback
\* candidates
RequestsBounded ==
  Sending =>
    LET o == Val(eval.out)
    IN  /\ Len(o.fetched) <= 12
        /\ Len(o.first) <= 3
        /\ Len(o.alts) <= 3
        /\ Len(PrimaryRequests(o)) <= 3
        /\ Len(o.fetched) - Len(PrimaryRequests(o)) <= 3 * Len(PrimaryRequests(o))

\* C39: when every HTTP request returns, a call of sendViaUazapi ends, and
\* it makes at most 12 requests: 3 primary candidates, each followed by at
\* most 3 fallback candidates; the hint in the answer to a fallback candidate
\* is not followed, so hints that point at each other make no loop.
C39_SendTerminates == []RequestsBounded /\ <>[]SendOver

\* a send that made 12 requests and gave up: every primary candidate answered
\* 404 with a hint, and every fallback candidate answered 404 with a hint too
C39_Witness ==
  /\ Sending
  /\ Val(eval.out).pc = "thrown"
  /\ Len(Val(eval.out).fetched) = 12
  /\ \A n \in 1..12 :
       /\ Val(eval.out).tried[n].status = 404
       /\ Val(eval.out).fetched[n] \notin Range(Val(eval.out).first) =>
            Val(eval.out).tried[n].data = res404Header.data

\* the entries the claim expects for the contacts from ci on: one per file
\* for a contact with a number, one for a contact without
RECURSIVE ExpectedEntries(_, _, _)
ExpectedEntries(contacts, files, ci) ==
  IF ci > Len(contacts) THEN << >>
  ELSE (IF contacts[ci].numero = << >> THEN << << ci, 0 >> >>
        ELSE [ fi \in 1..Len(files) |-> << ci, fi >> ])
       \o ExpectedEntries(contacts, files, ci + 1)

\* the transport attempts made for the pair (ci, fi), in the order made
CallsFor(o, ci, fi) == SelectSeq(o.calls, LAMBDA c : c.ci = ci /\ c.fi = fi)

====
